----------------------------- MODULE ConfigStore -----------------------------
(* What PutConfig and GetConfig promise their clients, whatever happens to   *)
(* the process and the disk in between: the configuration, the Secret Store  *)
(* and the managed state are one durable register with compare and swap.     *)
(*                                                                           *)
(*   tuple   the content of the three files, as the next reader finds it     *)
(*   back    the tuples that a loss of power may bring back                  *)
(*   seen    per client, the configuration it read last                      *)
(*   op      the PUT in progress: who asked (None: nobody), for which        *)
(*           configuration, and the tuple it has put in place (None before)  *)
(*   answer  per client, what its last PUT was told                          *)
(*   raced   a writer outside the workspace lock has changed a file while a  *)
(*           transaction was under way: nothing is promised from then on     *)
CONSTANTS Clients, Docs, None

VARIABLES tuple, back, seen, op, answer, raced

vars == <<tuple, back, seen, op, answer, raced>>

NoOp == [client |-> None, want |-> None, put |-> None]

Init == /\ back = {tuple}
        /\ op = NoOp
        /\ answer = [c \in Clients |-> "none"]
        /\ raced = FALSE

\* Changes reach the disk: fewer tuples can come back.
Settled == tuple \in back' /\ back' \subseteq back

Get(c) == /\ op = NoOp
          /\ seen' = [seen EXCEPT ![c] = tuple["config"]]
          /\ UNCHANGED <<tuple, back, op, answer, raced>>

Ask(c, want) == /\ op = NoOp
                /\ op' = [client |-> c, want |-> want, put |-> None]
                /\ answer' = [answer EXCEPT ![c] = "none"]
                /\ UNCHANGED <<tuple, back, seen, raced>>

\* The swap: it replaces the very configuration the client has read.
Commit(new) == /\ op.client # None /\ op.put = None
               /\ tuple["config"] = seen[op.client]
               /\ new["config"] = op.want
               /\ tuple' = new
               /\ back' = back \cup {new}
               /\ op' = [op EXCEPT !.put = new]
               /\ UNCHANGED <<seen, answer, raced>>

\* "ok" is said of a tuple that is in place and that no loss of power undoes.
Ok == /\ op.client # None /\ op.put # None
      /\ tuple = op.put /\ back = {tuple}
      /\ answer' = [answer EXCEPT ![op.client] = "ok"]
      /\ seen' = [seen EXCEPT ![op.client] = op.want]
      /\ op' = NoOp
      /\ UNCHANGED <<tuple, back, raced>>

Unchanged == /\ op.client # None /\ op.put = None
             /\ tuple["config"] = seen[op.client] /\ seen[op.client] = op.want
             /\ answer' = [answer EXCEPT ![op.client] = "unchanged"]
             /\ op' = NoOp
             /\ UNCHANGED <<tuple, back, seen, raced>>

\* An ordinary error is the answer only to a PUT that has put nothing in place.
Refuse == /\ op.client # None /\ op.put = None
          /\ answer' = [answer EXCEPT ![op.client] = "refused"]
          /\ op' = NoOp
          /\ Settled
          /\ UNCHANGED <<tuple, seen, raced>>

Unknown == /\ op.client # None /\ op.put # None
           /\ answer' = [answer EXCEPT ![op.client] = "unknown"]
           /\ op' = NoOp
           /\ UNCHANGED <<tuple, back, seen, raced>>

\* The command line, or an editor, replaces one file.
Write(t) == /\ \E r \in DOMAIN tuple : t = [tuple EXCEPT ![r] = t[r]]
            /\ tuple' = t
            /\ back' = back \cup {t}
            /\ UNCHANGED <<seen, op, answer, raced>>

Settle == /\ Settled
          /\ UNCHANGED <<tuple, seen, op, answer, raced>>

Crash == /\ op' = NoOp
         /\ UNCHANGED <<tuple, back, seen, answer, raced>>

PowerLoss == /\ tuple' \in back /\ back' = {tuple'}
             /\ op' = NoOp
             /\ UNCHANGED <<seen, answer, raced>>

Race == raced' = TRUE

Next == \/ \E c \in Clients : Get(c) \/ \E want \in Docs : Ask(c, want)
        \/ Commit(tuple') \/ Ok \/ Unchanged \/ Refuse \/ Unknown
        \/ Write(tuple') \/ Settle \/ Crash \/ PowerLoss \/ Race

Spec == Init /\ [][Next]_vars
==============================================================================
