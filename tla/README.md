# Ran Online server: formal models

TLA+ models of the parts of the Ran Online server whose correctness depends on
orders of events, checked with TLC and, where it is listed below, proved with
TLAPS. Every definition is translated from the code under `src/`;
`PROJECT.json` ("map") names the lines each one stands for.

## The system

Four kinds of process make up the server (`docs/ARCHITECTURE.md`):

| Process | Code | State it keeps | Talks to |
| --- | --- | --- | --- |
| Login | `Lib_Network/s_CLoginServer*` | connections that have not chosen a server | client, session server |
| Session | `Lib_Network/s_CSessionServer*` | the servers of the cluster, who is logged in | all servers |
| Agent | `Lib_Network/s_CAgentServer*`, `G-Logic/GLAgentServer*` | accounts, characters by Gaea id, parties, clubs, events | client, fields, database |
| Field | `Lib_Network/s_CFieldServer*`, `G-Logic/GLGaeaServer*`, `GLChar*` | maps, characters in play, their inventories and trades | client, agent, database |

Inside a server, I/O worker threads put received messages into a queue
(`CSMsgList`), one update thread takes them out and calls the handlers, then
runs the frame; database jobs go to one database thread. Handlers of the game
logic therefore never interleave with each other; what does interleave is the
queue, the connection slots, the database jobs, and the messages between
clients and servers, each decided on a state that may have changed.

### Components, their hard behaviours and what makes them correct

| Component | State and operations | Hard because | Correct when | Module |
| --- | --- | --- | --- | --- |
| Two-party trade | `GLTrade` of each character: target, agreement, lock, waiting time, offer; request, answer, offer, lock, agree, cancel, frame | the goods stay in inventories that other requests change; partners leave and their ids are reused; `DoTrade` undoes nothing | goods change hands only as agreed, whole; nothing is made, doubled or lost; trades begin fresh and end for both | `Trade`, `Barter` |
| Receive queue | two lists of reusable nodes; insert, flip, read | several writers, one reader that reads outside the lock; lists grow; memory runs out | first in, first out; everything is read; a frame ends | `MsgQueue`, `Fifo` |
| Inventory requests | hand and cells at the server, a copy at the client; lift, move, swap, lay down | the client decides on a stale copy, with answers on the way | the copy catches up; no item doubled or lost | `Pickup` |
| Connection slots | per slot: on line, socket, type, Gaea id, linked slot; free ids and ids that wait; accept, receive, close, register | slot ids are reused; completions come late; listener, workers and update thread take turns between their critical sections; two connections per character | no id is registered twice; an id in use is not free; no id is lost | `ClientSlots` |
| Private market | per character a stall: open, what is offered at which price from which cell; title, offer, withdraw, open, close, buy | offers are copies: the seller goes on moving, splitting and merging the goods; a purchase names a place and a number, and no price; it takes, lays down and pays in this order and undoes nothing | a purchase is whole or not at all, at the price its buyer saw; nothing is doubled or lost | `PMarket`, `Bazaar` |
| Character hand-over and save | characters at agent and fields, jobs of the database thread, save-in-progress flags | load, save, eviction and join overlap | once per field; the last save holds the state it left in, and precedes the hand-over; no check hangs | `CharSave` |
| Parties | at the agent the parties, whom each character may take in and who is in which; a copy at every field; a picture at every client; invite, ask to join, answer, leave, hand over, dissolve, frame | answers come late; who goes is tidied up a frame later; clients hear of their party over two connections; field and agent restart | a character is in one party, the one it carries the id of; no party grows too large; no id is lost; the field follows; a frame leaves no absent or lonely member; a party gets a leader who is there | `PartyMan`, `PartyNet` |
| Inventory grid | barrier grid and item map; insert, delete, find a place | items of several cells | grid and items agree; a place that is found is free | not modelled |
| Send and receive buffers | batches per connection | sender and completion share a buffer | nothing lost, reordered or split wrongly | not modelled |
| Accounts, clubs, events, duels | see `PROJECT.json` | | | not modelled |

`PROJECT.json` lists every component, also those left out and why, and under
"hazards" each place of this code where an order of events can go wrong.

## Modules

| Module | What it is |
| --- | --- |
| `Trade` | the trade handlers of `GLGaeaServerMsg.cpp`, `GLTrade`, `GLChar::DoTrade`, the frame, drops and evictions, and the inventory handlers of `GLCharInvenMsg.cpp` that move traded goods |
| `Barter` | what a trade promises: consent to terms, and swaps on exactly those terms |
| `MCTrade` | `Trade` for TLC: box positions and symmetry |
| `TradeProofs` | theorems about `Trade`, among them that it implements `Barter` |
| `MsgQueue` | `CSMsgManager` and its two `CSMsgList`s, with the update loop that reads them |
| `Fifo` | what the queue promises: a FIFO with the message in hand |
| `MsgQueueProofs` | theorems about `MsgQueue`, among them that it implements `Fifo` |
| `ClientSlots` | the connection slots of a field server: `CClientManager` and `CClientField`, `CNetUser`, the listener, the workers, and the messages that link the two connections of a character |
| `MCClientSlots` | `ClientSlots` for TLC: symmetry |
| `ClientSlotsProofs` | theorems about `ClientSlots` |
| `Pickup` | inventory requests from both ends: `GLCharacter` (client copy), `GLChar` (server) and two FIFO channels |
| `PickupProofs` | theorems about `Pickup` |
| `CharSave` | the life of a character from the agent's admission over one field and the next to its last save: `GLAgentServer`, `GLGaeaServer`, `CDbExecuter` and the connections between them |
| `MCCharSave` | `CharSave` for TLC: symmetry |
| `CharSaveProofs` | theorems about `CharSave` |
| `PMarket` | the private market: `GLPrivateMarket`, the handlers of `GLCharPMarketMsg.cpp`, and the inventory handlers that move offered goods |
| `Bazaar` | what the private markets promise: purchases from open stalls, whole or not at all |
| `MCPMarket` | `PMarket` for TLC: symmetry |
| `PMarketProofs` | theorems about `PMarket`, among them that it implements `Bazaar` |
| `PartyMan` | the agent's parties: `GLPartyMan`, `GLPARTY`, and the party handlers, logins and drops of `GLAgentServer` |
| `PartyNet` | `PartyMan` composed with the field server's copies (`GLPartyFieldMan`), the clients (`GLPartyClient` and its two dialogs) and the connections between them |
| `MCParty` | `PartyNet` for TLC: parties formed at the start, and what is left of the bounds there |
| `PartyProofs` | theorems about `PartyNet`: the agent, its frames, and the field that follows |
| `FoldLemmas` | what the proofs need of data: induction over the numbers, sums, folds over sequences, what a sequence holds |

Operators marked `WRONG:` in a comment are not the code: each is a version of
the operator below it with a plausible bug, used to make sure that a property
would notice (`PROJECT.json`, "mutants").

### Trade

One action per handler. `pc` is `m_PCArray`; `trade`, `disTrade` are members of
the `GLChar` that stands at a Gaea id; `asked` is the requester the client's
dialog shows, and the only source of `RequestTradeTarAns`' argument. Every
handler that finds its trade valid but the target gone or trading with another
resets its own trade (`DropBrokenTrade`). `RequestTradeAgree` contains the
whole exchange: the checks `IsVaildTradeData` and `IsVaildTradeInvenSpace` for
both sides, then `DoTrade` for one and, if it returns TRUE, for the other, with
every outcome `DoTrade` can leave when it stops half way. Drops: characters may
be dropped before or after the characters' own frames (`D1`, `D2` of
`FrameMove`), or by an agent's eviction (`RequestFieldSvrCharChk`) outside a
frame; a dropped character's object goes through `RESET_DATA` to a pool.

Abstractions: an item takes one cell; where `FindInsrtable` puts an item is left
open, that it finds a place exactly when one is free is not; one slot stands for
all slots; the waiting time counts frames; the items of one character are told
apart (`SITEMCUSTOM` compared by `memcmp`). Distance, level and map checks only
refuse, and a refused request changes nothing. That nobody asks himself is the
client's doing, which offers a trade on other characters only
(`GLCharacter.cpp:1763`); `RequestTrade` does not check it.

The refinement mapping to `Barter`: the goods of a character are the items in
its bag, wherever they lie; its standing terms are the two offers as they lie
in the boxes while its agreement is set and its partner is there.

### Receive queue

A step is a critical section of `CSMsgManager` (`MsgQueueInsert`,
`MsgQueueFlip`), or a step of the update thread on what only it uses (`GetMsg`
on the back list, and the handler that reads the node). Nodes are numbered in
list order, since a list never gives one back. `MaxNodes` bounds the memory:
`AddTail` may fail whenever a list is full, as `HeapAlloc` may, and the message
is dropped.

### Connection slots

A step is a critical section of `CClientManager` or of one `CNetUser`, or what
one thread does between two of them, so that the listener, the workers and the
update thread interleave wherever no lock is held. `slot` is `m_pClient`;
`free`, `mapped` and `pre` are `m_deqSleepCID`, `m_mapSleepCID` and
`m_vecSleepCID`. `acc` is the id the listener has got and not yet used,
`work` the data a worker has taken from the completion port, `closing` the slot
that `CFieldServer::CloseClient` has looked up and `CClientField::CloseClient`
is about to close. A slot that has ever closed a socket is in `late`: a
completion that reports its end may come at any later time, and names nothing
but the slot.

`ResetPreSleepCID` registers one id a step, under the lock of the manager
(`lock`); it runs at the start of a frame and when the listener finds no free
id. A frame then serves the messages received so far (`due`). Only the two
messages that write slots are kept, `JOIN` from the agent and `IDENTITY` from
the client; any other leaves the slots as they are.

Left out: the reserved slots of server connections, heartbeat times (a heartbeat
only decides when `Disconnect` comes), address limits, and the slots of login,
session and agent servers, whose managers differ.

### Inventory requests

`ReqFieldTo`, `ReqInvenTo` and `ReqHoldToField` decide on `client`; the handlers
`MsgReq...` serve the oldest request on `server` and send the answers that
`MsgProcess` applies to `client` in order. A handler refuses when the code's
checks on hand and cell fail; the checks the model leaves out (trade, market,
lock, level, place) may refuse as well, hence `Refuse`. Items take one cell and
do not pile; money, splitting, slots, storage and the VN inventory are left
out. `shown` is what the client still draws on the ground: it is brought up to
date by `Redraw` at any later time.

### Character hand-over and save

An action is a handler of an update thread (agent or field), a frame, a job of a
field's database thread, or a connection closed by a worker thread, so that all
of them interleave. `pcs`, `free`, `reserved` and `conns` are the agent's:
`m_PCArray` (with the fields that have answered, `m_bFIELD_CK`), `m_FreePCGIDs`,
`m_RegDropOutPC` and the client slots with the field each is linked to. `live`,
`slot`, `saving`, `drops` and `jobs` are a field's: `m_PCArray`, the slots of
agent connections, `m_reqSaveDBUserID`, `m_reqDropOutChar` and the database
queue. Messages of one TCP connection stay in order, and the agent's own
connection to a field (`toField`) and the one it opens there for each client
(`toSlot`) are different ones: a check of the fields and a join may overtake
each other. A state of a character is a number, and playing gives it the next.

A handler takes a message at any time, which allows every way the frames of the
servers can batch them. The map a character starts on, hence its first field, is
left open. A user has one character, so that its name, its id and its user
number are one value. A connection logs in once and visits a field once: reuse
of slots belongs to the connection layer. A link may fail to open, a save or a
load may fail in the database; field servers do not stop. `CSaveChaPos`, for a
saved map that no field serves, is left out.

### Private market

One action per handler. `bag` is the inventory with the hand; `open` and `sale`
are `m_bOPEN` and `m_mapSALE` of each character's `GLPrivateMarket`. An entry of
a stall is a copy: what was offered, from which cell, the price and how much is
left; nothing ties it to the inventory, whose handlers (`Moves`) do not ask
whether a stall is open. `ReqPMarketBuy` is the buyer's client, which sees the
stall of that moment, even one still being set up, since `MsgPMarketItemInfo`
answers without asking `IsOpen` (`GLCharPMarketMsg.cpp:372`); the order it sends
names the seller, the place and a number, and what the buyer saw (`what`, `price`,
`closed`) is kept beside it for the property only. That nobody orders from
himself is the client's doing, which shows the stalls of others only
(`GLGaeaClient.cpp:2247`); `MsgPMarketBuy` does not check it. `MsgPMarketBuy` is the whole handler: the checks in the code's
order, then `DoSale`, the goods, and the money last, with the branch that returns
after the goods were taken and before they were paid for.

Items that do not pile are told apart and lie in one cell. Piles are numbers of
one kind; `Lessened` and `Grown` say what `DeletePileItem` and `InsertPileItem`
come to, whichever pile they begin with. `Word` is the cut of a number to 16
bits where the code passes a DWORD as a WORD; `WordSize` stands for 65536.
Left out: the licence item a stall is opened with, time limits of items, the
search over all stalls, and new item ids given out at a purchase.

### Parties

`PartyMan` is the agent. `who` is `m_PCArray`, `pid` the `m_dwPartyID` of a
character, `asked` its `m_mapPartyReq`, `party` the records with their members in
the order they joined, `free` is `m_FreePartyID`. One action per handler, each
with the guards of the code: an answer names only the inviter, so that the party
joined is the one the inviter is in by then. `turn` is the party a frame looks
at; nothing else of the agent happens during a frame. Dropping a character
(`DropOutPC`) tells nobody: its party lists it until a frame reaches that party
(`FrameParty`), which first replaces a leader who has gone by the next in the
order, even if that one has gone too, then takes off who is gone and dissolves a
party of one.

`PartyNet` adds who hears of it. `toField` is the agent's connection to the
field, `toClient` to each client, `fromField` the field's to each client, `sent`
the requests; each stays in order, and nothing orders one against another.
`Follow` is what each notice does to the field's records `copy` and `gaeaTo`,
`NextView` what it does to a client's picture. A client asks only what its
picture allows it to ask (`GLPartyClient::Secede` and the others), and answers
dialogs it shows. `LeaveField` loses what the field was sending. `FieldRestart`
empties the field's records and dissolves all parties of the agent
(`ResetFieldInfo`); `AgentRestart` loses the agent and all clients, and what it
had sent still arrives. `FieldReconnect` is a connection to the field that is
lost while the field runs on (the agent's heartbeat closes it, or an operator)
and made again by `FieldConnectAll`: what the agent said from some moment on is
lost, its parties are dissolved, and the field keeps its records. `apart` is a
history variable: since such a reconnection or a restart of the agent the field
has not been started anew, and `FieldFollows` excepts this time.

Assumed: the list of free Gaea ids is longer than the logins between two
frames, so that no id comes back while a party lists it (`Listed` in
`CreatePC`; `ListedNever` is the mutant that shows that `OneParty` needs it). One
field server stands for all: each hears the same notices and none tells another.
Distance to an inviter is a free choice at the client, and schools, clubs, teams
and maps are one at the agent: they only refuse. Left out: party duels, options
for items and money, the list of parties that search.

## Runs

| Run | Constants | Shows |
| --- | --- | --- |
| `trade_swap` | 2 characters, 2 ids, 2 items, 1 cell, 1 coin | `BarterSpec` (goods change hands only in swaps of exactly what both agreed to), `MoneyConserved`, `NoDup`, `ItemsKept`, `TypeOK`. One cell each makes space run out in every exchange; one coin suffices for a purse to lose what was offered; the hand and the slot make an offered item leave its cell and another one take its place. |
| `trade_ids` | 3 characters, 2 ids, 1 coin, no items, fairness | `PairsStartFresh`, `PairsEndTogether`, `OfferStable`, `OrphanEnds`. With fewer ids than characters an id is taken over while a trade with its last occupant still stands. |
| `trade_doc` | 2 characters, 2 ids, 2 items, 2 cells, boxes of 2 | violation of `OffersInPlace`, see below. |
| `msg_queue` | 3 messages, lists of 1 to 3 nodes, fairness | `FifoSpec`, `EveryMessageTaken`, `FrameEnds`, `TypeOK`. Lists start smaller than the traffic, so growth, full lists and lost messages all happen. |
| `client_slots` | 2 slots, 1 Gaea id, 1 message waiting | `FreeIdsOnce`, `CrossedWhileAccepting`, `LostOnlyByWorkers`, `TypeOK`. Two slots are an agent's and a client's connection linked to each other, or one accepted while the other closes; one message is enough to meet a slot that has changed since. |
| `pickup` | 3 items, 2 cells, 2 requests and 4 answers under way | `ViewCatchesUp`, `NoDuplicates`, `LostOnlyByLifting`, `TypeOK`. Two requests under way are the shortest way for the second to meet a state its sender has not seen; three items fill the inventory and the hand. |
| `pickup_doc` | as `pickup`, 1 cell | violation of `LiftedIntoEmptyHand`, see below. |
| `charsave` | 2 characters, 2 connections, 1 id, 2 fields, 2 states of a character, a periodic save only into an empty queue | `LeavesSaved`, `HandOverSaved`, `TypeOK`. With one id the second character takes the id of the first while the fields may still play it. |
| `charsave_live` | 1 character, 2 connections, 2 ids, 2 fields, fairness | `IdsKept`, `OnePerField`, `SavesFinish`, `ChecksFinish`. The character comes back under a second id. Two connections are the least for a second login; two fields for a gate. |
| `charsave_doc` | as `charsave_live`, no fairness | violation of `LetGoSaved`, see below. |
| `pmarket` | 1 seller and 2 buyers, 1 item and a pile of 2, 2 cells, 1 place in the stall, prices 1 and 2, 2 coins, commission of 50 percent, `WordSize` 2 | `ItemsOnce`, `PileKept`, `OfferAsSeen`, `BazaarSpec`, `TypeOK`. Two buyers order the same goods; two cells run full; a pile of 2 splits and merges; with `WordSize` 2 an order of 2 is cut to 0, as one of 65536 is. |
| `party` | 3 ids and characters, 2 parties of at most 3; 1 login, 2 drops, 2 requests, 1 restart of either server, 1 lost connection between them, 1 move, shared out over five starts; fairness of the frame | `OneParty`, `IdsOnce`, `FieldFollows`, `FrameClears`, `LeaderRestored`, `NetTypeOK`. The starts: nobody on line; a party of three with two requests and two drops (a hand-over and a departure cross; the leader and the next go in one frame); the same with one request, and the field restarting or left; the same with one request, the connection to the field lost and the field restarting; a party of one beside an empty one, both ids taken, with a newcomer (an invitation and its answer, a request and its answer, a party that cannot be founded). A full party with somebody outside would need a fourth id and is left to the proof (`AgentTypes`). |

`msg_queue` and `pmarket` also check for deadlock. The others do not: an empty
field with nobody joining, connections of which none is left, a full channel, or
clients whose requests are used up may stop.

Fairness. `trade_ids` assumes that the field's frame keeps coming
(`WF(FrameMove)` with no drops): the update thread calls `FrameMove` in a loop
for as long as the server runs. `msg_queue` assumes that the update thread runs
(`WF(UpdateNext)`), for the same reason; the workers are not assumed to do
anything. `charsave_live` assumes for each field that its update thread takes the
agent's messages and reaches its frames, that its database thread takes its
jobs (`DatabaseProc` loops over `ExecuteJob`), and that the agent takes the
answers; joins, gates, closed connections and saves need not happen.
`party` assumes that frames are begun and go on to their end
(`WF(\E S : Frame(S))`, `WF(FrameGoesOn)`), since the update thread calls
`FrameMove` in a loop; nothing is assumed of clients, fields or requests.

## What the runs found

* **A second lift loses an item** (`pickup_doc`, a bug of the code):
  `MsgReqFieldToHold` (`GLCharInvenMsg.cpp:1571`) puts an item into the hand
  without looking at it; the comment above it takes an empty hand for granted.
  Two requests before the first answer, with a full inventory, and the first
  item is gone. `LostOnlyByLifting` shows that this is the only way.
* **Inventory requests during a trade** (`trade_doc`, documentation):
  `docs/MODULES/ECONOMY.md:65` says that four kinds of request are refused
  during a trade; two of them are not, and an offered item can leave its cell.
  The exchange stays safe since it compares the offers with the cells again
  (`BarterSpec`, `NoDup`).
* **Ids of slots are used while their messages wait** (no run): the comment at
  `s_CClientManager.cpp:209` says that idle ids are collected and registered
  together to prevent their crossed use. The frame registers them before it
  serves the messages received, and the listener whenever it finds no id; a new
  connection can get an id for which a message of the former one still waits.
  What holds is `CrossedWhileAccepting` and `LostOnlyByWorkers`.
* **A number cut to 16 bits** (no run, since no document says otherwise): a
  purchase checks and charges for its number as a DWORD and reduces offer and
  goods by it as a WORD. `Bazaar!SellPile` states this exception; below 65536
  units the two agree.
* **A user is forgotten at the first of its saves** (`charsave_doc`, a bug of
  the code): `m_reqSaveDBUserID` is a set, and `CDbActSaveChar::Execute` erases
  the user from it when one save is done. A client's connection closes, a
  periodic save is due in the same frame, and the drop queues the second save.
  A check of the agent between the two is answered at once, and another field
  may load the older state.
* **A character on two fields** (no run, since no document says otherwise): the
  agent links a character to a field without asking whether its client is still
  there, and the join travels on another connection than the check of the next
  login. A late join then finds a field that has already let go. `OnePerField`
  is what holds.

* **A leader who is no member** (no run): the comment at `GLPartyMan.cpp:195` says
  that while two members are left the next one gets the authority of a leader who
  disappears. A member asks to leave while the leadership is handed to it;
  `MsgPartySecede` takes it off and keeps it as leader, and a frame, which looks
  only for leaders who are off line, leaves it so. `FrameClears` speaks of
  members for this reason, and `LeaderRestored` of leaders who are off line. An
  empty party whose leader left it this way keeps its id as long as that
  character is on line; `MCParty` starts from one.
* **Leaving overtakes joining** (no run): departures reach a client from the agent,
  new parties through the field. Who leaves before the news has come ignores the
  one and then shows the other (`GLAgentServerMsg.cpp:2422`,
  `GLPartyClient.cpp:276`). Nothing is therefore stated of what clients show.
* **The reset is never sent** (no run): the comment at
  `s_CAgentServerChannel.cpp:136` announces a reset of the fields; line 138 sends
  the period a second time. After a restart of the agent the fields keep their
  parties; so does a field whose connection to the agent was lost and made again
  (`FieldReconnect`), while the agent dissolves all of its own. The dissolutions
  reach that field behind what was lost, but a party that had already ended at the
  agent stays in its records: without its exception `FieldFollows` fails in four
  steps. It holds again once the field is itself started anew.

## What is proved

Every safety invariant, every action property and every refinement of an abstract
specification (`Fifo`, `Barter`, `Bazaar`) that a passing run checks is also a
theorem, for all values of the constants. The assumptions are those stated in the modules:

* a value that stands for nobody or nothing is none of the things it is missing
  from (`NullAssumption`, `NoneAssumption`, `ItemAssumption`, `KindAssumption`,
  `EntryAssumption` and, of records, `DealAssumption`, `NobodyAssumption`,
  `PromiseAssumption`): the code's null pointers and `GAEAID_NULL`;
* bounds and amounts are numbers, a commission is a percentage, a 16-bit word
  has more than one value;
* `PersonsAssumption`, `FiniteAssumption` and `GaeasAssumption`: characters, cells
  and Gaea ids are finitely many, as in any server with a maximum of clients and
  an inventory of fixed size. Sums over characters and cells, and a list of
  free ids that holds each once, mean something only then;
* for the parties, that Gaea ids are not given out again while a party lists them
  (`CreatePC`, see above).

The table gives each theorem and what its proof turns on; an invariant named in
it is the inductive one, or part of it.

| Theorem | States | Argument |
| --- | --- | --- |
| `TradeProofs!TypeCorrect` | `Spec => []TypeOK` | The invariant adds that an id nobody stands at has no trade and that nobody is asked by itself. Without the first, a newcomer's trade could be anything; without the second, an answer would set up a trade of a character with itself, in which both updates hit the same record. |
| `TradeProofs!TradesStartFresh` | `Spec => PairsStartFresh` | Lemma `Shapes`: whatever handler ran, a step keeps the terms, edits one offer, ends one trade, opens one, fills an empty id or empties some. Each shape is then compared with the property. |
| `TradeProofs!TradesEndTogether` | `Spec => PairsEndTogether` | `Shapes` again; that opening needs both sides idle is what keeps a third party out. |
| `TradeProofs!AgreementBinds` | `Spec => OfferStable` | `Shapes`: only an edit touches an offer, and it takes back both agreements. |
| `TradeProofs!NothingDuplicated` | `Spec => []NoDup` | Lemma `DoTradeMoves`: under the checks of `RequestTradeAgree`, `DoTrade` succeeds and puts the incoming items where nothing lies or where an outgoing item is taken from. From it `ExchangeShuffles`: an exchange only moves items between places, each to one of its own. The invariant adds that nobody stands at two ids and nobody trades with himself, without which the two halves of an exchange would write the same inventory. |
| `TradeProofs!NothingLost` | `Spec => ItemsKept` | The same shapes of goods (`GoodsShapes`): nothing, a shuffle, one item to the field, one from it; only the last can overwrite, and only the hand. |
| `TradeProofs!TradeIsBarter` | `Spec => BarterSpec` | Every step is an inventory handler, or sets no agreement and leaves the goods (`Withdraw`), or sets one (`Consent`), or is the second agreement (`StepCases`). In the last case `ExchangePlaces` gives what both inventories and purses become, and `WealthPlaced` turns cells into sets of goods: exactly `Swap` on the terms of the one who agreed first. That standing terms never change on the way is `FreshStep` and `TermsStep`, of `PairsStartFresh` and `OfferStable`. |
| `TradeProofs!NoMoneyMade` | `Spec => []MoneyConserved` | A fold over the purses is a sum (`TotalIs`); the shapes of goods say which purses a step changes: one against the ground, or two against each other (`TotalOne`, `TotalTwo`), the second because nobody trades with himself. |
| `MsgQueueProofs!TypeCorrect` | `Spec => []TypeOK` | The invariant: reading never overtakes writing, the front list is unread from its head, the back list is read to its end between frames, and the message in hand lies before the read position. |
| `MsgQueueProofs!Implements` | `Spec => FifoSpec` | With that invariant, a flip concatenates the unread messages of the two lists in the same order, inserting appends, `GetMsg` takes the head, and no insertion touches the node in hand. |
| `ClientSlotsProofs!Types`, `IdsRegisteredOnce` | `[]TypeOK`, `[]FreeIdsOnce` | The conjunction is inductive: an id is appended only if the map does not have it, and taken from both at once. |
| `ClientSlotsProofs!CrossedOnlyWhileAccepting` | `Spec => CrossedWhileAccepting` | Lemma `Whereabouts`, action by action: an id in use comes to be listed only by a close, and a listed one to be in use only by the listener. |
| `ClientSlotsProofs!ClosesLoseNoId` | `Spec => LostOnlyByWorkers` | Every close lists the ids of the slots it empties. |
| `PickupProofs!TypeCorrect`, `ItemsUnique` | `[]TypeOK`, `[]NoDuplicates` | The conjunction is inductive: where an item is decides what a request may do. |
| `PickupProofs!OneWayToLose` | `Spec => LostOnlyByLifting` | Action by action from the invariant. |
| `PickupProofs!ViewNeverDrifts` | `Spec => []ViewCatchesUp` | `Caught`, the fold of the answers under way over the client's copy, is the server's state. It is inductive: an answer the client applies moves from the fold into the copy (`OutcomeTail`), and an answer a handler sends turns the server's old state into its new one (`AppliedUpdate` and the other lemmas on each kind of answer). |
| `CharSaveProofs!OneLife` | `Spec => []OnePerField` | Three lemmas on what a step may do to the characters in play: some leave, one joins, one plays; only the join needs `CreatePC`'s checks. The invariant adds that `live` is a function whose values are records or `None`. |
| `CharSaveProofs!TypesOK`, `IdsStayKept` | `[]TypeOK`, `[]IdsKept` | `Types` adds to `TypeOK` the types of everything under way: messages, jobs, loaded characters, drops. `IdsInv` says that the free list holds an id once, and exactly those nobody is at; both are inductive together. A frame gives back all reserved ids at once, with a list built by `FlattenSeq`; `FlattenIn` and `ReturnedIs` say what that list holds. |
| `CharSaveProofs!LeaversAreSaved` | `Spec => LeavesSaved` | Only the agent's check of another login (`RequestFieldSvrCharChk`) and the frame's drops take a character out of play, and each puts a save of it behind the queue; that a character is at one place (`OnePerField`) makes its last save that one. |
| `CharSaveProofs!StagesHold` | `Spec => []StagesInv` | For each field and connection: join, load, result, in play, told are stages passed once and in this order; who is marked to leave is still where it was marked; no save waits behind the message that the connection has left. A step that brings a connection nothing new keeps its stages (`CalmKeeps`), so that each handler is looked at only for the connection it serves. |
| `CharSaveProofs!HandOversAreSaved` | `Spec => []HandOverSaved` | From `StagesInv`: a connection that has been told is not in play, and the message got out of the queue behind every save. `HandOverSaved` itself says nothing of what is still in the queue and is not inductive. |
| `PMarketProofs!Types` | `Spec => []TypeOK` | No order takes more than the buyer has or the offer has left, or a subtraction would leave the numbers. |
| `PMarketProofs!OffersStand` | `Spec => []OfferAsSeen` | Handler by handler: what edits a stall needs it closed, what closes it marks the orders, and a sale changes number and mark of an entry only. |
| `PMarketProofs!NoItemTwice` | `Spec => []ItemsOnce` | A purchase takes an item from the cell it was offered from only if it still lies there, and the free cell it is laid into was asked for before; the branch without one contradicts the check. |
| `PMarketProofs!NoUnitLost` | `Spec => []PileKept` | `Lessened` and `Grown` change the units of a bag by the number they are given, whichever piles they begin with; a purchase takes and gives the same number, cut to 16 bits or not. The invariant adds that nobody has ordered from himself (`FromOthers`), or both halves of a purchase would write one bag. |
| `PMarketProofs!MarketsAreBazaar` | `Spec => BazaarSpec` | Every handler is an action of `Bazaar` under `Promises`, `Holders` and `Stocks`, or leaves all three. That an item has one holder is `ItemsOnce`; that a purchase is a whole `SellItem` or `SellPile` is that its half-way branches contradict its checks. |
| `PMarketProofs!NoMoneyMade` | `Spec => []MoneyKept` | Purses and commissions together stay what they were at the start; `GiveBound` says that the commission is part of the price. No run checks it. |
| `PartyProofs!AgentTypes`, `InOneParty`, `NoIdLost` | `NetSpec => []AgentTypeOK`, `[]OneParty`, `[]IdsOnce` | One inductive invariant, `IInv`: the three, and that who is off line carries no party id (`OffLine`), and a record that is no party has no members (`NoMembers`). Without the first, an id given to a newcomer could bring a party along; without the second, a party id given out again could bring members. Lemma `OneRecord` is the heart: a step that gives one record a new value keeps the invariant if the characters on line follow it and the id is taken from or put to the list accordingly; every handler and every turn of the frame is such a step. The assumption on Gaea ids is used once, in `CreateStep`. |
| `PartyProofs!NetTypesOK` | `NetSpec => []NetTypeOK` | `NetTypes` adds what every notice under way names, and that a client which shows no party shows nobody in it; inductive from `IInv`. |
| `PartyProofs!FrameClearsAll` | `NetSpec => FrameClears` | `Swept`: of the parties a frame has passed, none has a member who has gone and none has one member only. It is inductive because nothing of the agent happens between the turns of a frame; at its end it speaks of all parties. |
| `PartyProofs!FieldKeepsUp` | `NetSpec => []FieldFollows` | `CaughtUp`: the field's records, with all notices under way applied in order, are the agent's parties, and (beyond what is to be shown) nobody is in a party there who is not in it here. A notice the field reads moves from the fold into its records; each handler sends notices that make of the old parties the new ones (`Copied`, `Reduced`). An id given out again is then clean at the field as well. A restart of the field brings both to no parties, whatever the agent had lost before. |

`FoldLemmas` holds what these proofs need of data. The library's induction
theorems take a predicate as a parameter, which the installed provers cannot
instantiate; `Induction` there asks for a set instead and follows from the
library's theorem on well-founded orders. From it come the equation of a fold
over a finite set, sums (`SumOne`, `SumTwo`: one or two summands change), folds
over a sequence (`OutcomeTail`, `OutcomeAppend`, `OutcomeConcat`: more at either
end; `FlattenSeq` is one, see `FlattenIs` in `CharSaveProofs`), and what a sequence holds and in which order after it has grown or
lost its head.

Only model-checked are the liveness properties: `OrphanEnds`, `EveryMessageTaken`,
`FrameEnds`, `SavesFinish`, `ChecksFinish` and `LeaderRestored`. TLAPS, as far as
it is installed here, proves nothing of fairness and `ENABLED`. The properties
the `_doc` runs refute are no theorems, of course.

## Not modelled

* **Inventory grid.** Every model takes an item for one cell. The data check
  `GLItemMan::SyncUpdateData` reports any other size as an error and sets it to 1
  by 1, and for such items the grid is a set of free cells.
* **Send and receive buffers.** Every step holds the lock of its buffer; what a
  model would have to tell apart are bytes and offsets.
* **Accounts and single login.** Whether an account may log in is decided by
  stored procedures that are not in the repository, and nothing in it states what
  the three servers' lists of users promise each other.
* **Clubs, scheduled events, duels.** Clubs repeat the shape of the parties with the
  database as a third copy, and what they promise after a failed job is in stored
  procedures; events are timed, each with a table of its own; a duel opens as a
  trade does and exchanges nothing.
* **Combat, skills, movement, monsters, quests.** Numeric and geometric
  computation of one thread over tables.
* **Framing, compression, encryption, database access, client interface, engine,
  editors, vendored code.** No protocol, or not part of the server.
