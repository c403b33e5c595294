-------------------------- MODULE GuaranteedChannel --------------------------
(***************************************************************************)
(* What guaranteed communication promises on each link.  Within a session  *)
(* the receiver's user is given a message at most once, in any order, and  *)
(* only what was sent to it.  The sender lets go of a message only when it *)
(* has been given to the receiver's user, or the link is closed.           *)
(***************************************************************************)
CONSTANTS Link,   \* pairs of a sender and a receiver, both ways
          Uid

VARIABLES
  open,     \* open[k]: the sender of link k has it open
  posted,   \* posted[k]: the messages ever sent over link k
  kept,     \* kept[k]: those its sender repeats until they are acknowledged
  here,     \* here[k]: those given to the receiver's user in this session
  given     \* given[k]: those given to the receiver's user in any session

vars == <<open, posted, kept, here, given>>

Init ==
  /\ open \in [Link -> BOOLEAN]
  /\ posted = [k \in Link |-> {}] /\ kept = posted
  /\ here = posted /\ given = posted

Post(k) == posted[k] \subseteq posted'[k] /\ posted'[k] \subseteq Uid

\* Messages are given for the first time in the session, or the receiver opens a
\* new session, which knows nothing of earlier ones.
Give(k) ==
  LET back == <<k[2], k[1]>>
  IN  \/ /\ here[k] \subseteq here'[k] /\ here'[k] \ here[k] \subseteq posted[k]
         /\ given'[k] = given[k] \cup here'[k]
      \/ /\ ~open[back] /\ open'[back]
         /\ here'[k] = {} /\ given'[k] = given[k]

LetGo(k) ==
  /\ kept'[k] \ kept[k] \subseteq posted[k]
  /\ ~open'[k] \/ kept[k] \ kept'[k] \subseteq given[k]

Next == \A k \in Link : Post(k) /\ Give(k) /\ LetGo(k)

Spec == Init /\ [][Next]_vars
==============================================================================
