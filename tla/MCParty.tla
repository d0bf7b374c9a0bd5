------------------------------ MODULE MCParty ------------------------------
EXTENDS PartyNet

\* f[1] to f[3] are on line as the characters c[1] to c[3].  f[1] formed party 0
\* by inviting f[2], and f[3] too when n = 3.  When n = 1, f[2] has left it again
\* and the frame has not yet come to it; party 1 is then an empty one that f[2]
\* left with the leadership.  Everything said of the parties is heard.
\* left is how much is left of each bound.
FormedBy(n, f, c, left) ==
  LET S == {f[i] : i \in 1 .. n}
      Ordered == {<<f[i], f[j]>> : <<i, j>> \in {<<1, 2>>, <<1, 3>>, <<2, 3>>}}
  IN /\ who = [g \in Ids |-> IF g \in Range(f) THEN c[CHOOSE i \in 1 .. 3 : f[i] = g] ELSE Nobody]
     /\ pid = [g \in Ids |-> IF g \in S THEN 0 ELSE NoParty]
     /\ asked = [g \in Ids |-> {}]
     /\ party = [p \in Parties |->
                   CASE p = 0 -> [master |-> f[1], member |-> S, before |-> Ordered \cap (S \X S)]
                     [] p = 1 /\ n = 1 -> [NoOne EXCEPT !.master = f[2]]
                     [] OTHER -> NoOne]
     /\ free = IF n = 1 THEN <<>> ELSE <<1>>
     /\ turn = Idle
     /\ toField = <<>>
     /\ toClient = [g \in Ids |-> <<>>]
     /\ copy = [p \in Parties |-> [master |-> party[p].master, member |-> party[p].member]]
     /\ gaeaTo = pid
     /\ here = Range(f)
     /\ fromField = toClient
     /\ apart = FALSE
     /\ view = [g \in Ids |-> IF g \in S
                              THEN [party |-> 0, master |-> f[1], others |-> S \ {f[1]}] ELSE NoView]
     /\ dialog = [g \in Ids |-> NoDialog]
     /\ sent = toClient
     /\ spent = [b \in DOMAIN Bounds |-> Bounds[b] - left[b]]

ThreeOf(S) == CHOOSE f \in [1 .. 3 -> S] : IsInjective(f)

Formed(n, left) == FormedBy(n, ThreeOf(Ids), ThreeOf(Chars), left)

\* The start of the servers; a party of three, whose members ask and go, or have
\* the field server restarted or leave it, or its connection lost; a party of one,
\* with others to come.
MCInit ==
  \/ NetInit
  \/ Formed(3, [requests |-> 2, logins |-> 0, drops |-> 2, moves |-> 0, crashes |-> 0, losses |-> 0, restarts |-> 1])
  \/ Formed(3, [requests |-> 1, logins |-> 0, drops |-> 2, moves |-> 1, crashes |-> 1, losses |-> 0, restarts |-> 1])
  \/ Formed(3, [requests |-> 1, logins |-> 0, drops |-> 1, moves |-> 0, crashes |-> 1, losses |-> 1, restarts |-> 0])
  \/ Formed(1, [requests |-> 2, logins |-> 1, drops |-> 1, moves |-> 0, crashes |-> 0, losses |-> 0, restarts |-> 1])

MCSpec == MCInit /\ [][NetNext]_netVars /\ Fairness
=============================================================================
