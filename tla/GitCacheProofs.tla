--------------------------- MODULE GitCacheProofs ---------------------------
(***************************************************************************)
(* Proofs about GitCache for any number of processes, cleaners, keys and   *)
(* temporary names.                                                        *)
(***************************************************************************)
EXTENDS GitCache, TLAPS

(***************************************************************************)
(* A directory that a cleaner has open exists: what it unlinks is taken    *)
(* from a directory, never from an absent name.                            *)
(***************************************************************************)
OpenExists == \A c \in Cleaners : at[c] # NoTmp => Exists(at[c])

\* The processes between mkdtemp and the end of clone() hold a directory.
HoldsTmp == \A p \in Procs : pc[p] \in Working <=> mine[p] # NoTmp

TInv == TypeOK /\ OpenExists /\ HoldsTmp

(***************************************************************************)
(* Type correctness: whatever clones, failures of git, kills and cleaners  *)
(* do to each other, a name holds no directory or a set of parts.          *)
(***************************************************************************)
LEMMA TypeStep == TInv /\ [Next]_vars => TInv'
<1> SUFFICES ASSUME TInv, [Next]_vars PROVE TInv'
  OBVIOUS
<1> USE CacheNames, CacheParts DEF TInv, TypeOK, OpenExists, HoldsTmp, Exists
<1>1. ASSUME NEW p \in Procs, Lookup(p) PROVE TInv'
  BY <1>1 DEF Lookup, Goto, cleanVars, PCs, Working
<1>2. ASSUME NEW p \in Procs, MakeRoot(p) PROVE TInv'
  BY <1>2 DEF MakeRoot, Goto, cleanVars, PCs, Working
<1>3. ASSUME NEW p \in Procs, MakeTmp(p) PROVE TInv'
  BY <1>3 DEF MakeTmp, Goto, cleanVars, PCs, Working, Ended, Names, Parts
<1>4. ASSUME NEW p \in Procs, GitInit(p) PROVE TInv'
  BY <1>4 DEF GitInit, Goto, cleanVars, PCs, Working, Names, Parts
<1>5. ASSUME NEW p \in Procs, GitFetch(p) PROVE TInv'
  BY <1>5 DEF GitFetch, Goto, cleanVars, PCs, Working
<1>6. ASSUME NEW p \in Procs, GitCheckout(p) PROVE TInv'
  BY <1>6 DEF GitCheckout, Cached, Goto, cleanVars, PCs, Working, Names, Parts
<1>7. ASSUME NEW p \in Procs, GitFail(p) PROVE TInv'
  BY <1>7 DEF GitFail, Goto, cleanVars, PCs, Working
<1>8. ASSUME NEW p \in Procs, Recheck(p) PROVE TInv'
  BY <1>8 DEF Recheck, Goto, cleanVars, PCs, Working
<1>9. ASSUME NEW p \in Procs, DropTmp(p) PROVE TInv'
  BY <1>9 DEF DropTmp, Detach, Goto, PCs, Working, Ended, Names
<1>10. ASSUME NEW p \in Procs, Publish(p) PROVE TInv'
  BY <1>10 DEF Publish, CanRename, Goto, PCs, Working, Ended, Names
<1>11. ASSUME NEW p \in Procs, Serve(p) PROVE TInv'
  BY <1>11 DEF Serve, Goto, cleanVars, PCs, Working, Ended
<1>12. ASSUME NEW p \in Procs, Again(p) PROVE TInv'
  BY <1>12 DEF Again, Goto, cleanVars, PCs, Working, Ended, Subs
<1>13. ASSUME NEW p \in Procs, Kill(p) PROVE TInv'
  BY <1>13 DEF Kill, Goto, cleanVars, PCs, Working
<1>14. ASSUME NEW c \in Cleaners, CleanStart(c) PROVE TInv'
  BY <1>14 DEF CleanStart, procVars
<1>15. ASSUME NEW c \in Cleaners, CleanEnter(c) PROVE TInv'
  BY <1>15 DEF CleanEnter, procVars
<1>16. ASSUME NEW c \in Cleaners, CleanUnlink(c) PROVE TInv'
  BY <1>16 DEF CleanUnlink, OpenParts, procVars
<1>17. ASSUME NEW c \in Cleaners, CleanSkip(c) PROVE TInv'
  BY <1>17 DEF CleanSkip, procVars
<1>18. ASSUME NEW c \in Cleaners, CleanRmdir(c) PROVE TInv'
  BY <1>18 DEF CleanRmdir, procVars
<1>19. ASSUME NEW c \in Cleaners, CleanFinish(c) PROVE TInv'
  BY <1>19 DEF CleanFinish, procVars
<1>20. ASSUME NEW c \in Cleaners, CleanAbort(c) PROVE TInv'
  BY <1>20 DEF CleanAbort, procVars
<1>21. CASE UNCHANGED vars
  BY <1>21 DEF vars, procVars, cleanVars
<1> QED
  BY <1>1, <1>2, <1>3, <1>4, <1>5, <1>6, <1>7, <1>8, <1>9, <1>10, <1>11,
     <1>12, <1>13, <1>14, <1>15, <1>16, <1>17, <1>18, <1>19, <1>20, <1>21
  DEF Next, Clone, Clean

\* The processes begin with nothing of their own in the cache.
LEMMA TypeInit == Init => TInv
BY CacheNames, CacheParts
   DEF Init, TInv, TypeOK, OpenExists, HoldsTmp, PCs, Working, Subs, Exists

\* Hence the types hold in every state, and so do the facts with them.
LEMMA Typing == Spec => []TInv
<1>1. Init => TInv
  BY TypeInit
<1>2. TInv /\ [Next]_vars => TInv'
  BY TypeStep
<1> QED
  BY <1>1, <1>2, PTL DEF Spec

\* In every state the cache, the temporary directories, the processes of
\* clone() and the cleaners have their types.
THEOREM TypeCorrect == Spec => []TypeOK
<1>1. TInv => TypeOK
  BY DEF TInv
<1> QED
  BY <1>1, Typing, PTL
-----------------------------------------------------------------------------
(***************************************************************************)
(* While nobody has begun to clean, the temporary directory of a clone     *)
(* holds what git has put there so far and nobody else's; what clone()     *)
(* has returned is there whole.                                            *)
(***************************************************************************)
Content(l) == CASE l = "tmp" -> {{}}
                [] l \in {"init", "fetched"} -> {{Git}}
                [] l \in {"cloned", "won", "lost"} -> {Parts}
                [] OTHER -> SUBSET Parts

Idle == \A c \in Cleaners : stage[c] = "idle"

Private == /\ \A p \in Procs : pc[p] \in Working => dirs[mine[p]] \in Content(pc[p])
           /\ \A p, q \in Procs : p # q /\ mine[p] = mine[q] => mine[p] = NoTmp

Returned == \A p \in Procs :
               /\ pc[p] \in {"lost", "got", "served", "nosubdir"}
                    => dirs[key[p]] = Parts
               /\ pc[p] = "nosubdir" => sub[p] = Missing

Quiet == /\ Idle
         /\ \A k \in Keys : dirs[k] \in {NoDir, Parts}
         /\ Private
         /\ Returned

QInv == TInv /\ (~swept => Quiet)

\* Before the first step no cleaner has been at work.
LEMMA QuietInit == Init => QInv
<1> SUFFICES ASSUME Init PROVE QInv
  OBVIOUS
<1>1. TInv
  BY TypeInit
<1>2. Quiet
  BY DEF Init, Quiet, Idle, Private, Returned, Working, Names
<1> QED
  BY <1>1, <1>2 DEF QInv

(***************************************************************************)
(* Every step of a process keeps the quiet cache quiet.                    *)
(***************************************************************************)
LEMMA QuietProc ==
    ASSUME TInv, Quiet, NEW p \in Procs, Clone(p) \/ Again(p) \/ Kill(p)
    PROVE  Quiet'
<1> USE CacheNames, CacheParts
    DEF TInv, TypeOK, HoldsTmp, Quiet, Idle, Private, Returned, Exists, Goto,
        Working, Names, Parts, cleanVars
<1>1. CASE Lookup(p)
  BY <1>1 DEF Lookup, Cached, Content
<1>2. CASE MakeRoot(p)
  BY <1>2 DEF MakeRoot, Content
<1>3. CASE MakeTmp(p)
  <2>1. CASE root
    <3>1. PICK t \in Tmps : /\ ~Exists(t)
                            /\ dirs' = [dirs EXCEPT ![t] = {}]
                            /\ mine' = [mine EXCEPT ![p] = t]
                            /\ pc' = [pc EXCEPT ![p] = "tmp"]
                            /\ UNCHANGED <<key, sub, stage>>
      BY <1>3, <2>1 DEF MakeTmp
    <3>2. \A q \in Procs : pc[q] \in Working => mine[q] \in Tmps /\ mine[q] # t
      BY <3>1 DEF Content
    <3>3. Private'
      BY <3>1, <3>2 DEF Content
    <3>4. Returned' /\ (\A k \in Keys : dirs'[k] \in {NoDir, Parts})
      BY <3>1
    <3> QED
      BY <3>1, <3>3, <3>4
  <2>2. CASE ~root
    BY <1>3, <2>2 DEF MakeTmp, Content
  <2> QED
    BY <2>1, <2>2
<1>4. CASE GitInit(p)
  BY <1>4 DEF GitInit, Content
<1>5. CASE GitFetch(p)
  BY <1>5 DEF GitFetch, Content
<1>6. CASE GitCheckout(p)
  BY <1>6 DEF GitCheckout, Content
<1>7. CASE GitFail(p)
  BY <1>7 DEF GitFail, Content
<1>8. CASE Recheck(p)
  BY <1>8 DEF Recheck, Cached, Content
<1>9. CASE DropTmp(p)
  BY <1>9 DEF DropTmp, Content
<1>10. CASE Publish(p)
  <2>1. mine[p] \in Tmps /\ dirs[mine[p]] = Parts
    BY <1>10 DEF Publish, Content
  <2>2. CASE CanRename(mine[p], key[p])
    <3>1. /\ dirs' = [dirs EXCEPT ![key[p]] = Parts, ![mine[p]] = NoDir]
          /\ pc' = [pc EXCEPT ![p] = "got"]
          /\ mine' = [mine EXCEPT ![p] = NoTmp]
          /\ UNCHANGED <<key, sub, stage>>
      BY <1>10, <2>1, <2>2 DEF Publish
    <3>2. \A k \in Keys : dirs'[k] \in {NoDir, Parts} /\ (dirs[k] = Parts => dirs'[k] = Parts)
      BY <2>1, <3>1
    <3>3. \A q \in Procs : q # p => pc'[q] = pc[q] /\ mine'[q] = mine[q]
      BY <3>1
    <3>4. Private'
      <4>1. ASSUME NEW q \in Procs, pc'[q] \in Working
            PROVE  dirs'[mine'[q]] \in Content(pc'[q])
        <5>1. q # p /\ mine[q] \in Tmps /\ mine[q] # mine[p]
          BY <2>1, <3>1, <3>3, <4>1
        <5> QED
          BY <5>1, <2>1, <3>1, <3>3, <4>1
      <4> QED
        BY <4>1, <3>1
    <3>5. Returned'
      BY <2>1, <3>1, <3>2
    <3> QED
      BY <3>1, <3>2, <3>4, <3>5
  <2>3. CASE ~CanRename(mine[p], key[p])
    BY <1>10, <2>1, <2>3 DEF Publish, Content
  <2> QED
    BY <2>2, <2>3
<1>11. CASE Serve(p)
  BY <1>11 DEF Serve, Content, Subs
<1>12. CASE Again(p)
  BY <1>12 DEF Again, Content, Ended
<1>13. CASE Kill(p)
  BY <1>13 DEF Kill, Content, Ended
<1> QED
  BY <1>1, <1>2, <1>3, <1>4, <1>5, <1>6, <1>7, <1>8, <1>9, <1>10, <1>11,
     <1>12, <1>13 DEF Clone

\* No step of a process or of a cleaner makes a quiet cache noisy.
LEMMA QuietStep == QInv /\ [Next]_vars => QInv'
<1> SUFFICES ASSUME QInv, [Next]_vars PROVE QInv'
  OBVIOUS
<1>1. TInv'
  BY TypeStep DEF QInv
<1>2. ASSUME NEW c \in Cleaners, Clean(c), ~swept' PROVE FALSE
  <2>1. ~swept /\ stage[c] = "idle"
    BY <1>2 DEF Clean, CleanStart, CleanEnter, CleanUnlink, CleanSkip, CleanRmdir,
       CleanFinish, CleanAbort, QInv, Quiet, Idle
  <2> QED
    BY <1>2, <2>1 DEF Clean, CleanStart, CleanEnter, CleanUnlink, CleanSkip,
       CleanRmdir, CleanFinish, CleanAbort
<1>3. ASSUME NEW p \in Procs, Clone(p) \/ Again(p) \/ Kill(p), ~swept' PROVE Quiet'
  <2>1. ~swept
    BY <1>3 DEF Clone, Lookup, MakeRoot, MakeTmp, GitInit, GitFetch, GitCheckout,
       GitFail, Recheck, DropTmp, Publish, Serve, Again, Kill, cleanVars
  <2> QED
    BY <1>3, <2>1, QuietProc DEF QInv
<1>4. ASSUME UNCHANGED vars, ~swept' PROVE Quiet'
  BY <1>4 DEF QInv, Quiet, Idle, Private, Returned, vars, procVars, cleanVars
<1> QED
  BY <1>1, <1>2, <1>3, <1>4 DEF QInv, Next

\* Hence the cache is quiet until the first cleaner starts.
LEMMA QuietCache == Spec => []QInv
<1> QED
  BY QuietInit, QuietStep, PTL DEF Spec

(***************************************************************************)
(* Before a clean-cache, the cache never holds a half-made clone under a   *)
(* key, whatever git fails at and whoever is killed.                       *)
(***************************************************************************)
THEOREM CacheHoldsWholeClones == Spec => []PublishedComplete
<1>1. QInv => PublishedComplete
  BY DEF QInv, Quiet, PublishedComplete
<1> QED
  BY <1>1, QuietCache, PTL

(***************************************************************************)
(* Before a clean-cache, what clone() has returned is a whole clone for as *)
(* long as the process goes on with it.                                    *)
(***************************************************************************)
THEOREM ClonesServedWhole == Spec => []ServedComplete
<1>1. QInv => ServedComplete
  BY DEF QInv, Quiet, Returned, ServedComplete
<1> QED
  BY <1>1, QuietCache, PTL
-----------------------------------------------------------------------------
(***************************************************************************)
(* A failed git and a lost race leave nothing behind, with or without      *)
(* cleaners: a temporary directory outlives its clone only if the process  *)
(* was killed or ended in an OSError.                                      *)
(***************************************************************************)
THEOREM CloneCleansUp == Spec => []NoLitter
<1>1. Init => NoLitter
  BY DEF Init, NoLitter, Exists, Names
<1>2. NoLitter /\ TInv /\ TInv' /\ [Next]_vars => NoLitter'
  <2> SUFFICES ASSUME NoLitter, TInv, TInv', [Next]_vars,
                      NEW t \in Tmps, Exists(t)'
               PROVE  t \in orphans' \cup {mine'[p] : p \in Procs}
    BY DEF NoLitter
  <2> USE CacheNames DEF TInv, TypeOK, HoldsTmp, OpenExists, NoLitter, Exists, Goto, Names,
          Working
  <2>1. ASSUME NEW p \in Procs, MakeTmp(p) PROVE t \in orphans' \cup {mine'[q] : q \in Procs}
    BY <2>1 DEF MakeTmp
  <2>2. ASSUME NEW p \in Procs, Clone(p), ~MakeTmp(p), Exists(t)
        PROVE  t \in orphans' \cup {mine'[q] : q \in Procs}
    <3>1. CASE DropTmp(p)
      BY <2>2, <3>1 DEF DropTmp
    <3>2. CASE Publish(p)
      BY <2>2, <3>2 DEF Publish
    <3>3. CASE ~DropTmp(p) /\ ~Publish(p)
      BY <2>2, <3>3 DEF Clone, Lookup, MakeRoot, GitInit, GitFetch, GitCheckout,
         GitFail, Recheck, Serve
    <3> QED
      BY <3>1, <3>2, <3>3
  <2>3. ASSUME NEW p \in Procs, Again(p) \/ Kill(p)
        PROVE  t \in orphans' \cup {mine'[q] : q \in Procs}
    BY <2>3 DEF Again, Kill
  <2>4. ASSUME NEW c \in Cleaners, Clean(c)
        PROVE  t \in orphans' \cup {mine'[q] : q \in Procs}
    <3>1. Exists(t) /\ UNCHANGED <<mine, orphans>>
      BY <2>4 DEF Clean, CleanStart, CleanEnter, CleanUnlink, OpenParts, CleanSkip,
         CleanRmdir, CleanFinish, CleanAbort, procVars
    <3> QED
      BY <3>1
  <2>5. ASSUME NEW p \in Procs, Clone(p), ~MakeTmp(p) PROVE Exists(t)
    BY <2>5, CacheParts DEF Clone, Lookup, MakeRoot, GitInit, GitFetch, GitCheckout,
       Cached, GitFail, Recheck, Serve, DropTmp, Publish
  <2>6. CASE UNCHANGED vars
    BY <2>6 DEF vars, procVars
  <2> QED
    BY <2>1, <2>2, <2>3, <2>4, <2>5, <2>6 DEF Next
<1> QED
  BY <1>1, <1>2, Typing, PTL DEF Spec

(***************************************************************************)
(* No process that loads a resource changes a directory that others may    *)
(* have been handed: not even when a cleaner works on it.                  *)
(***************************************************************************)
THEOREM ClonesStay == Spec => PublishedStays
<1>1. TInv /\ [Next]_vars =>
        [\A p \in Procs, k \in Keys : Clone(p) /\ Cached(k) => dirs'[k] = dirs[k]]_vars
  <2> SUFFICES ASSUME TInv, NEW p \in Procs, NEW k \in Keys, Clone(p), Cached(k)
               PROVE  dirs'[k] = dirs[k]
    OBVIOUS
  <2> USE CacheNames DEF TInv, TypeOK, HoldsTmp, Exists, Cached, Names, Working
  <2>1. CASE Publish(p)
    <3>1. dirs[k] # {} /\ dirs[k] # NoDir
      OBVIOUS
    <3> QED
      BY <2>1, <3>1 DEF Publish, CanRename
  <2>2. CASE ~Publish(p)
    BY <2>2 DEF Clone, Lookup, MakeRoot, MakeTmp, GitInit, GitFetch, GitCheckout,
       GitFail, Recheck, Serve, DropTmp
  <2> QED
    BY <2>1, <2>2
<1> QED
  BY <1>1, Typing, PTL DEF Spec, PublishedStays
-----------------------------------------------------------------------------
(***************************************************************************)
(* The refinement of CloneCache, step by step.                             *)
(***************************************************************************)
Store  == [k \in Keys |-> StoreState(k)]
Answer == [p \in Procs |-> AnswerOf(pc[p])]

\* A step that leaves the keys alone leaves the store alone.
LEMMA SameStore ==
    ASSUME \A k \in Keys : dirs'[k] = dirs[k]
    PROVE  Store' = Store
BY DEF Store, StoreState

\* The empty cache is the empty store.
LEMMA RefineInit == Init => Cache!Init
BY CacheNames DEF Init, Cache!Init, StoreState, AnswerOf, Names

\* The steps of a clone that answer nothing.
LEMMA RefineSilent ==
    ASSUME QInv, NEW p \in Procs,
           \/ MakeRoot(p) \/ GitInit(p) \/ GitFetch(p) \/ GitCheckout(p)
           \/ GitFail(p) \/ Recheck(p) \/ Serve(p)
    PROVE  UNCHANGED Cache!cacheVars
<1> USE CacheNames DEF QInv, TInv, TypeOK, HoldsTmp, Goto, Names, Working
<1>1. \A k \in Keys : dirs'[k] = dirs[k]
  BY DEF MakeRoot, GitInit, GitFetch, GitCheckout, GitFail, Recheck, Serve
<1>2. Store' = Store
  BY <1>1, SameStore
<1>3. Answer' = Answer
  BY DEF Answer, AnswerOf, MakeRoot, GitInit, GitFetch, GitCheckout, GitFail, Recheck, Serve
<1>4. UNCHANGED <<key, swept>>
  BY DEF MakeRoot, GitInit, GitFetch, GitCheckout, GitFail, Recheck, Serve, cleanVars
<1> QED
  BY <1>2, <1>3, <1>4 DEF Cache!cacheVars, Store, Answer

\* A lookup answers with the clone that is there, or asks for none.
LEMMA RefineLookup ==
    ASSUME QInv, NEW p \in Procs, Lookup(p)
    PROVE  [Cache!Next]_(Cache!cacheVars)
<1> USE DEF QInv, TInv, TypeOK, Goto, Names
<1>1. UNCHANGED <<dirs, key, swept>> /\ pc[p] = "idle"
  BY DEF Lookup, cleanVars
<1>2. Store' = Store
  BY <1>1, SameStore
<1>3. CASE Cached(key[p])
  <2>1. pc' = [pc EXCEPT ![p] = "got"]
    BY <1>3 DEF Lookup
  <2>2. Store[key[p]] = "whole" \/ swept
    BY <1>3 DEF Quiet, Cached, Exists, Store, StoreState
  <2>3. Answer[p] = "pending" /\ Answer' = [Answer EXCEPT ![p] = "path"]
    BY <1>1, <2>1 DEF Answer, AnswerOf
  <2>4. Cache!Find(p)
    BY <1>1, <1>2, <2>2, <2>3 DEF Cache!Find, Store, Answer
  <2> QED
    BY <2>4 DEF Cache!Next
<1>4. CASE ~Cached(key[p])
  <2>1. Answer' = Answer
    BY <1>4, <1>1 DEF Answer, AnswerOf, Lookup
  <2> QED
    BY <1>1, <1>2, <2>1 DEF Cache!cacheVars, Store, Answer
<1> QED
  BY <1>3, <1>4

\* A temporary directory is not part of the store; where none can be made, the
\* process answers with an error.
LEMMA RefineMakeTmp ==
    ASSUME QInv, NEW p \in Procs, MakeTmp(p)
    PROVE  [Cache!Next]_(Cache!cacheVars)
<1> USE CacheNames DEF QInv, TInv, TypeOK, Goto, Names
<1>1. UNCHANGED <<key, swept>> /\ pc[p] = "rooted" /\ \A k \in Keys : dirs'[k] = dirs[k]
  BY DEF MakeTmp, cleanVars
<1>2. Store' = Store
  BY <1>1, SameStore
<1>3. CASE root
  <2>1. Answer' = Answer
    BY <1>1, <1>3 DEF MakeTmp, Answer, AnswerOf
  <2> QED
    BY <1>1, <1>2, <2>1 DEF Cache!cacheVars, Store, Answer
<1>4. CASE ~root
  <2>1. Answer[p] = "pending" /\ Answer' = [Answer EXCEPT ![p] = "refused"]
    BY <1>1, <1>4 DEF MakeTmp, Answer, AnswerOf
  <2>2. Cache!Refuse(p)
    BY <1>1, <1>2, <2>1 DEF Cache!Refuse, Store, Answer
  <2> QED
    BY <2>2 DEF Cache!Next
<1> QED
  BY <1>3, <1>4

\* Nor is its removal, after which the process answers with an error or with
\* the clone of another.
LEMMA RefineDropTmp ==
    ASSUME QInv, NEW p \in Procs, DropTmp(p)
    PROVE  [Cache!Next]_(Cache!cacheVars)
<1> USE CacheNames DEF QInv, TInv, TypeOK, HoldsTmp, Goto, Names, Working
<1>1. UNCHANGED <<key, swept>> /\ \A k \in Keys : dirs'[k] = dirs[k]
  BY DEF DropTmp
<1>2. Store' = Store
  BY <1>1, SameStore
<1>3. CASE pc[p] = "broken"
  <2>1. Answer[p] = "pending" /\ Answer' = [Answer EXCEPT ![p] = "refused"]
    BY <1>3 DEF DropTmp, Answer, AnswerOf
  <2>2. Cache!Refuse(p)
    BY <1>1, <1>2, <2>1 DEF Cache!Refuse, Store, Answer
  <2> QED
    BY <2>2 DEF Cache!Next
<1>4. CASE pc[p] = "lost"
  <2>1. Answer[p] = "pending" /\ Answer' = [Answer EXCEPT ![p] = "path"]
    BY <1>4 DEF DropTmp, Answer, AnswerOf
  <2>2. Store[key[p]] = "whole" \/ swept
    BY <1>4, CacheParts DEF Quiet, Returned, Store, StoreState, Parts
  <2>3. Cache!Find(p)
    BY <1>1, <1>2, <2>1, <2>2 DEF Cache!Find, Store, Answer
  <2> QED
    BY <2>3 DEF Cache!Next
<1> QED
  BY <1>3, <1>4 DEF DropTmp

\* The rename fills the key with what the temporary directory holds: the
\* whole clone, unless a cleaner has been at it.
LEMMA RefinePublish ==
    ASSUME QInv, NEW p \in Procs, Publish(p)
    PROVE  [Cache!Next]_(Cache!cacheVars)
<1> USE CacheNames, CacheParts DEF QInv, TInv, TypeOK, HoldsTmp, Goto, Names, Working
<1>1. UNCHANGED <<key, swept>> /\ pc[p] = "won" /\ mine[p] \in Tmps
  BY DEF Publish
<1>2. CASE CanRename(mine[p], key[p])
  <2>1. /\ dirs' = [dirs EXCEPT ![key[p]] = dirs[mine[p]], ![mine[p]] = NoDir]
        /\ pc' = [pc EXCEPT ![p] = "got"]
    BY <1>2 DEF Publish
  <2>2. Answer[p] = "pending" /\ Answer' = [Answer EXCEPT ![p] = "path"]
    BY <1>1, <2>1 DEF Answer, AnswerOf
  <2> DEFINE s == StoreState(mine[p])
  <2>3. /\ s \in Cache!States
        /\ ~swept => s = "whole"
    BY <1>1 DEF StoreState, Quiet, Private, Content, Cache!States
  <2>4. Store' = [Store EXCEPT ![key[p]] = s]
    BY <1>1, <2>1 DEF Store, StoreState
  <2>5. Store[key[p]] # "whole" /\ (Store[key[p]] = "absent" \/ swept)
    BY <1>2 DEF CanRename, Exists, Store, StoreState, Parts, Quiet
  <2>6. s \in IF swept THEN Cache!States ELSE {"whole"}
    BY <2>3
  <2>7. Cache!Fill(p)
    BY <1>1, <2>2, <2>4, <2>5, <2>6 DEF Cache!Fill, Store, Answer
  <2> QED
    BY <2>7 DEF Cache!Next
<1>3. CASE ~CanRename(mine[p], key[p])
  <2>1. dirs' = dirs /\ pc' = [pc EXCEPT ![p] = "oserror"]
    BY <1>3 DEF Publish
  <2>2. Store' = Store
    BY <2>1, SameStore
  <2>3. Answer[p] = "pending" /\ Answer' = [Answer EXCEPT ![p] = "refused"]
    BY <1>1, <2>1 DEF Answer, AnswerOf
  <2>4. Cache!Refuse(p)
    BY <1>1, <2>2, <2>3 DEF Cache!Refuse, Store, Answer
  <2> QED
    BY <2>4 DEF Cache!Next
<1> QED
  BY <1>2, <1>3

\* A new request, and a killed process that starts over.
LEMMA RefineAsk ==
    ASSUME QInv, NEW p \in Procs, Again(p) \/ Kill(p)
    PROVE  [Cache!Next]_(Cache!cacheVars)
<1> USE DEF QInv, TInv, TypeOK, Goto
<1>1. UNCHANGED <<dirs, swept>> /\ pc' = [pc EXCEPT ![p] = "idle"]
  BY DEF Again, Kill, cleanVars
<1>2. Store' = Store
  BY <1>1, SameStore
<1>3. Answer' = [Answer EXCEPT ![p] = "pending"]
  BY <1>1 DEF Answer, AnswerOf
<1>4. PICK k \in Keys : key' = [key EXCEPT ![p] = k]
  <2>1. CASE Again(p)
    BY <2>1 DEF Again
  <2>2. CASE Kill(p)
    <3>1. key' = [key EXCEPT ![p] = key[p]] /\ key[p] \in Keys
      BY <2>2 DEF Kill
    <3> QED
      BY <3>1
  <2> QED
    BY <2>1, <2>2
<1>5. Cache!Ask(p)
  BY <1>1, <1>2, <1>3, <1>4 DEF Cache!Ask, Store, Answer
<1> QED
  BY <1>5 DEF Cache!Next

\* A cleaner only ever takes parts away.
LEMMA RefineClean ==
    ASSUME QInv, NEW c \in Cleaners, Clean(c)
    PROVE  Cache!Clean
<1> USE CacheNames, CacheParts DEF QInv, TInv, TypeOK, OpenExists, Exists, Names, procVars
<1>1. UNCHANGED <<key, pc>>
  BY DEF Clean, CleanStart, CleanEnter, CleanUnlink, CleanSkip, CleanRmdir,
     CleanFinish, CleanAbort
<1>2. swept'
  BY DEF Clean, CleanStart, CleanEnter, CleanUnlink, CleanSkip, CleanRmdir,
     CleanFinish, CleanAbort, Quiet, Idle
<1>3. \A k \in Keys : dirs'[k] = Parts => dirs[k] = Parts
  <2> SUFFICES ASSUME NEW k \in Keys, dirs'[k] = Parts PROVE dirs[k] = Parts
    OBVIOUS
  <2>1. CASE CleanUnlink(c)
    <3>1. PICK i \in items[c] : /\ i \in OpenParts(c)
                               /\ dirs' = [dirs EXCEPT ![at[c]] = @ \ {i}]
      BY <2>1 DEF CleanUnlink
    <3>2. i \in Parts
      BY <3>1
    <3>3. CASE at[c] = k
      BY <3>1, <3>2, <3>3
    <3>4. CASE at[c] # k
      BY <3>1, <3>4
    <3> QED
      BY <3>3, <3>4
  <2>2. CASE ~CleanUnlink(c)
    <3>1. NoDir # Parts
      BY DEF Parts
    <3> QED
      BY <2>2, <3>1 DEF Clean, CleanStart, CleanEnter, CleanSkip, CleanRmdir,
         CleanFinish, CleanAbort
  <2> QED
    BY <2>1, <2>2
<1>4. \A k \in Keys : Store'[k] = "whole" => Store[k] = "whole"
  BY <1>3 DEF Store, StoreState
<1>5. Store' \in [Keys -> Cache!States]
  BY DEF Store, StoreState, Cache!States
<1>6. Answer' = Answer
  BY <1>1 DEF Answer
<1> QED
  BY <1>1, <1>2, <1>4, <1>5, <1>6 DEF Cache!Clean, Store, Answer

(***************************************************************************)
(* The cache with its temporary directories, second look and rename is an  *)
(* implementation of CloneCache: each key is filled by one step, with a    *)
(* whole clone unless the cache is being cleaned, and each process is      *)
(* answered at one step by what the cache then holds.                      *)
(***************************************************************************)
THEOREM CacheRefinement == Spec => ImplementsCloneCache
<1>1. QInv /\ [Next]_vars => [Cache!Next]_(Cache!cacheVars)
  <2> SUFFICES ASSUME QInv, [Next]_vars PROVE [Cache!Next]_(Cache!cacheVars)
    OBVIOUS
  <2>1. ASSUME NEW p \in Procs, Clone(p) PROVE [Cache!Next]_(Cache!cacheVars)
    BY <2>1, RefineSilent, RefineLookup, RefineMakeTmp, RefineDropTmp, RefinePublish
    DEF Clone
  <2>2. ASSUME NEW p \in Procs, Again(p) \/ Kill(p) PROVE [Cache!Next]_(Cache!cacheVars)
    BY <2>2, RefineAsk
  <2>3. ASSUME NEW c \in Cleaners, Clean(c) PROVE [Cache!Next]_(Cache!cacheVars)
    BY <2>3, RefineClean DEF Cache!Next
  <2>4. CASE UNCHANGED vars
    BY <2>4 DEF vars, procVars, cleanVars, Cache!cacheVars, StoreState
  <2> QED
    BY <2>1, <2>2, <2>3, <2>4 DEF Next
<1> QED
  BY <1>1, RefineInit, QuietCache, PTL DEF Spec, ImplementsCloneCache, Cache!Spec
=============================================================================
