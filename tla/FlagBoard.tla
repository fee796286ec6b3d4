------------------------------ MODULE FlagBoard ------------------------------
(***************************************************************************)
(* What flagging promises when each request is one step: users put flags   *)
(* on content and take them back, enough pending flags hide it, and a      *)
(* review closes the pending flags, by clearing or by removing the content.*)
(* ContentFlags implements this when its requests run one at a time.       *)
(***************************************************************************)
EXTENDS Integers, FiniteSets

CONSTANTS Contents, Users, System, Author, FLAG_THRESHOLD

VARIABLES
  state,    \* "absent", "live" or "gone"
  open,     \* open[c]: users with a pending flag on c
  closed,   \* closed[c]: users whose flag on c was reviewed
  hidden,
  removed

vars == <<state, open, closed, hidden, removed>>

Init ==
  /\ state = [c \in Contents |-> "absent"]
  /\ open = [c \in Contents |-> {}]
  /\ closed = [c \in Contents |-> {}]
  /\ hidden = [c \in Contents |-> FALSE]
  /\ removed = [c \in Contents |-> FALSE]

\* Pending flags of c become S, and c is hidden exactly when there are enough.
Recount(c, S) ==
  /\ open' = [open EXCEPT ![c] = S]
  /\ hidden' = [hidden EXCEPT
       ![c] = IF state[c] = "live" THEN Cardinality(S) >= FLAG_THRESHOLD ELSE @]

Post(c) ==
  /\ state[c] = "absent"
  /\ state' = [state EXCEPT ![c] = "live"]
  /\ UNCHANGED <<open, closed, hidden, removed>>

\* The watchlist's flag is put on new content before anybody else's.
AutoFlag(c) ==
  /\ state[c] # "absent" /\ open[c] = {} /\ closed[c] = {}
  /\ open' = [open EXCEPT ![c] = {System}]
  /\ UNCHANGED <<state, closed, hidden, removed>>

Flag(c, u) ==
  /\ state[c] # "absent" /\ u \notin open[c] \cup closed[c] \cup {Author[c]}
  /\ Recount(c, open[c] \cup {u})
  /\ UNCHANGED <<state, closed, removed>>

Retract(c, u) ==
  /\ u \in open[c]
  /\ Recount(c, open[c] \ {u})
  /\ UNCHANGED <<state, closed, removed>>

Close(c) ==
  /\ open[c] # {}
  /\ open' = [open EXCEPT ![c] = {}]
  /\ closed' = [closed EXCEPT ![c] = @ \cup open[c]]
  /\ UNCHANGED state

Dismiss(c) ==
  /\ Close(c)
  /\ hidden' = [hidden EXCEPT ![c] = IF state[c] = "live" THEN FALSE ELSE @]
  /\ UNCHANGED removed

Remove(c) ==
  /\ Close(c)
  /\ removed' = [removed EXCEPT ![c] = (state[c] = "live") \/ @]
  /\ UNCHANGED hidden

Restore(c) ==
  /\ state[c] = "live" /\ removed[c]
  /\ removed' = [removed EXCEPT ![c] = FALSE]
  /\ UNCHANGED <<state, open, closed, hidden>>

Erase(c) ==
  /\ state[c] = "live"
  /\ state' = [state EXCEPT ![c] = "gone"]
  /\ UNCHANGED <<open, closed, hidden, removed>>

Next ==
  \E c \in Contents :
    \/ Post(c) \/ AutoFlag(c)
    \/ \E u \in Users : Flag(c, u) \/ Retract(c, u)
    \/ Dismiss(c) \/ Remove(c) \/ Restore(c) \/ Erase(c)

Spec == Init /\ [][Next]_vars
=============================================================================
