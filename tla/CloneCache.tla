----------------------------- MODULE CloneCache -----------------------------
(***************************************************************************)
(* What the cache of cloned repositories promises to the processes that    *)
(* share it, without temporary directories, git or renames: a key is       *)
(* filled once, by a step that makes the whole clone visible; a process is *)
(* given the path of a key that is filled, or refused; and nothing else    *)
(* happens to a key unless somebody has begun to clean the cache.          *)
(***************************************************************************)
CONSTANTS Procs, Keys

VARIABLES store,   \* what is under each key
          asked,   \* the key each process asked for
          answer,  \* what it was told
          open     \* a clean-cache has begun

States == {"absent", "whole", "damaged"}

cacheVars == <<store, asked, answer, open>>

Init == /\ store = [k \in Keys |-> "absent"]
        /\ asked \in [Procs -> Keys]
        /\ answer = [p \in Procs |-> "pending"]
        /\ open = FALSE

Ask(p) == /\ \E k \in Keys : asked' = [asked EXCEPT ![p] = k]
          /\ answer' = [answer EXCEPT ![p] = "pending"]
          /\ UNCHANGED <<store, open>>

\* A cleaned cache may lose the clone between the look at it and the answer.
Find(p) == /\ answer[p] = "pending"
           /\ store[asked[p]] = "whole" \/ open
           /\ answer' = [answer EXCEPT ![p] = "path"]
           /\ UNCHANGED <<store, asked, open>>

Fill(p) == /\ answer[p] = "pending"
           /\ store[asked[p]] # "whole"
           /\ store[asked[p]] = "absent" \/ open
           /\ \E s \in IF open THEN States ELSE {"whole"} :
                 store' = [store EXCEPT ![asked[p]] = s]
           /\ answer' = [answer EXCEPT ![p] = "path"]
           /\ UNCHANGED <<asked, open>>

Refuse(p) == /\ answer[p] = "pending"
             /\ answer' = [answer EXCEPT ![p] = "refused"]
             /\ UNCHANGED <<store, asked, open>>

\* A cleaner never makes a clone whole.
Clean == /\ open' = TRUE
         /\ store' \in [Keys -> States]
         /\ \A k \in Keys : store'[k] = "whole" => store[k] = "whole"
         /\ UNCHANGED <<asked, answer>>

Next == Clean \/ \E p \in Procs : Ask(p) \/ Find(p) \/ Fill(p) \/ Refuse(p)

Spec == Init /\ [][Next]_cacheVars
=============================================================================
