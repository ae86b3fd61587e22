------------------------------ MODULE GitCache ------------------------------
(***************************************************************************)
(* The persistent cache of cloned repositories (repo/files.py,             *)
(* GitRepoFile) as several topwrap processes use it at once, together with *)
(* `topwrap clean-cache --target git' (cli/main.py), which removes it with *)
(* shutil.rmtree.  Nothing locks the cache: a clone is made in a directory *)
(* of its own and renamed over the key it is cached under.                 *)
(*                                                                         *)
(* A clone is abstracted to the set of its parts: the `.git' directory the *)
(* code looks for, and the working files.  Only whether a part is there    *)
(* is kept.                                                                *)
(***************************************************************************)
EXTENDS Naturals, FiniteSets

CONSTANTS Procs,     \* processes that load a `git:' resource
          Cleaners,  \* processes that run `topwrap clean-cache'
          Keys,      \* sha256 digests of url@ref, names in the cache
          Tmps,      \* names mkdtemp draws; bounds the litter of a run
          Git,       \* the `.git' directory of a clone
          Files,     \* the other entries of a clone, subdirectories too
          Root,      \* the request that names no subdirectory
          Missing,   \* a subdirectory the repository does not have
          NoDir,     \* no directory of that name
          NoTmp      \* a process that holds no temporary directory

Parts == {Git} \cup Files
Names == Keys \cup Tmps
Subs  == {Root, Missing} \cup Files

ASSUME CacheNames == Keys \cap Tmps = {} /\ NoTmp \notin Names
ASSUME CacheParts == /\ Git \notin Files
                     /\ \A S \in SUBSET Parts : S # NoDir
                     /\ Root \notin Parts /\ Missing \notin Parts
                     /\ Root # Missing

VARIABLES
    root,    \* the cache directory exists
    dirs,    \* what each name of the cache directory holds
    pc,      \* where each process is in GitRepoFile.path
    key,     \* the name its clone is cached under
    sub,     \* the subdirectory it was asked for, once looked at
    mine,    \* the temporary directory it clones into
    stage,   \* where each cleaner is in rmtree
    todo,    \* entries of the cache directory it has still to remove
    cur,     \* the entry it is removing, by name
    at,      \* where the directory it has open is now
    items,   \* what it has still to unlink there
    swept,   \* some clean-cache has begun
    orphans  \* temporary directories whose process died or raised OSError

procVars  == <<pc, key, sub, mine>>
cleanVars == <<stage, todo, cur, at, items, swept>>
vars == <<root, dirs, procVars, cleanVars, orphans>>

Working == {"tmp", "init", "fetched", "cloned", "broken", "won", "lost"}
Ended   == {"served", "nosubdir", "failed", "oserror"}
PCs     == {"idle", "miss", "rooted", "got"} \cup Working \cup Ended

Init == /\ root = FALSE
        /\ dirs = [n \in Names |-> NoDir]
        /\ pc = [p \in Procs |-> "idle"]
        /\ key \in [Procs -> Keys]
        /\ sub = [p \in Procs |-> Root]
        /\ mine = [p \in Procs |-> NoTmp]
        /\ stage = [c \in Cleaners |-> "idle"]
        /\ todo = [c \in Cleaners |-> {}]
        /\ cur = [c \in Cleaners |-> NoTmp]
        /\ at = [c \in Cleaners |-> NoTmp]
        /\ items = [c \in Cleaners |-> {}]
        /\ swept = FALSE
        /\ orphans = {}

Exists(n) == dirs[n] # NoDir

\* `(clone_dir / ".git").exists()'
Cached(k) == Exists(k) /\ Git \in dirs[k]

Goto(p, l) == pc' = [pc EXCEPT ![p] = l]

\* A cleaner that has directory n open is left with a directory that has no
\* name and nothing in it.
Detach(n) == at' = [c \in Cleaners |-> IF at[c] = n THEN NoTmp ELSE at[c]]
-----------------------------------------------------------------------------
(***************************************************************************)
(* GitRepoFile.clone and GitRepoFile.path                                  *)
(***************************************************************************)
\* The first look at the cache; a hit is returned as it is.
Lookup(p) ==
    /\ pc[p] = "idle"
    /\ Goto(p, IF Cached(key[p]) THEN "got" ELSE "miss")
    /\ UNCHANGED <<root, dirs, key, sub, mine, cleanVars, orphans>>

\* cache_dir.mkdir(parents=True, exist_ok=True)
MakeRoot(p) ==
    /\ pc[p] = "miss"
    /\ Goto(p, "rooted")
    /\ root' = TRUE
    /\ UNCHANGED <<dirs, key, sub, mine, cleanVars, orphans>>

\* tempfile.mkdtemp(dir=cache_dir): outside the try, so that a cache
\* directory removed since MakeRoot ends the process with an OSError.
MakeTmp(p) ==
    /\ pc[p] = "rooted"
    /\ \/ /\ root
          /\ \E t \in Tmps :
                /\ ~Exists(t)
                /\ \A c \in Cleaners : cur[c] # t
                /\ dirs' = [dirs EXCEPT ![t] = {}]
                /\ mine' = [mine EXCEPT ![p] = t]
          /\ Goto(p, "tmp")
       \/ /\ ~root
          /\ Goto(p, "oserror")
          /\ UNCHANGED <<dirs, mine>>
    /\ UNCHANGED <<root, key, sub, cleanVars, orphans>>

\* git init; git remote add
GitInit(p) ==
    /\ pc[p] = "tmp" /\ Exists(mine[p])
    /\ Goto(p, "init")
    /\ dirs' = [dirs EXCEPT ![mine[p]] = @ \cup {Git}]
    /\ UNCHANGED <<root, key, sub, mine, cleanVars, orphans>>

\* git fetch: needs the repository made by GitInit.
GitFetch(p) ==
    /\ pc[p] = "init" /\ Cached(mine[p])
    /\ Goto(p, "fetched")
    /\ UNCHANGED <<root, dirs, key, sub, mine, cleanVars, orphans>>

\* git checkout: writes the working files.
GitCheckout(p) ==
    /\ pc[p] = "fetched" /\ Cached(mine[p])
    /\ Goto(p, "cloned")
    /\ dirs' = [dirs EXCEPT ![mine[p]] = @ \cup Files]
    /\ UNCHANGED <<root, key, sub, mine, cleanVars, orphans>>

\* Mutant of GitFail: the error is caught and the clone taken for made.
GitFailSwallowed(p) ==
    /\ pc[p] \in {"tmp", "init", "fetched"}
    /\ Goto(p, "lost")
    /\ UNCHANGED <<root, dirs, key, sub, mine, cleanVars, orphans>>

\* Any of the git commands exits with an error, or there is no git: the
\* remote, the reference and the network are not the cache's to choose.
GitFail(p) ==
    /\ pc[p] \in {"tmp", "init", "fetched"}
    /\ Goto(p, "broken")
    /\ UNCHANGED <<root, dirs, key, sub, mine, cleanVars, orphans>>

\* Mutant of DropTmp: the temporary directory is forgotten.
DropTmpForgotten(p) ==
    /\ pc[p] \in {"broken", "lost"}
    /\ Goto(p, IF pc[p] = "broken" THEN "failed" ELSE "got")
    /\ mine' = [mine EXCEPT ![p] = NoTmp]
    /\ UNCHANGED <<root, dirs, key, sub, cleanVars, orphans>>

\* Mutant of DropTmp: removes clone_dir in place of tmp_dir.
DropTmpWrongDir(p) ==
    /\ pc[p] \in {"broken", "lost"}
    /\ Goto(p, IF pc[p] = "broken" THEN "failed" ELSE "got")
    /\ dirs' = [dirs EXCEPT ![key[p]] = NoDir]
    /\ mine' = [mine EXCEPT ![p] = NoTmp]
    /\ Detach(key[p])
    /\ UNCHANGED <<root, key, sub, stage, todo, cur, items, swept, orphans>>

\* shutil.rmtree(tmp_dir, ignore_errors=True), after a failure of git
\* (GitCloneException is raised next) or when another clone came first.
DropTmp(p) ==
    /\ pc[p] \in {"broken", "lost"}
    /\ Goto(p, IF pc[p] = "broken" THEN "failed" ELSE "got")
    /\ dirs' = [dirs EXCEPT ![mine[p]] = NoDir]
    /\ mine' = [mine EXCEPT ![p] = NoTmp]
    /\ Detach(mine[p])
    /\ UNCHANGED <<root, key, sub, stage, todo, cur, items, swept, orphans>>

\* Mutant of Recheck: the clone is published before its files are there.
RecheckEarly(p) ==
    /\ pc[p] \in {"fetched", "cloned"}
    /\ Goto(p, IF Cached(key[p]) THEN "lost" ELSE "won")
    /\ UNCHANGED <<root, dirs, key, sub, mine, cleanVars, orphans>>

\* The second look at the cache, just before the rename.
Recheck(p) ==
    /\ pc[p] = "cloned"
    /\ Goto(p, IF Cached(key[p]) THEN "lost" ELSE "won")
    /\ UNCHANGED <<root, dirs, key, sub, mine, cleanVars, orphans>>

\* rename(2) takes a directory over an absent name or an empty directory.
CanRename(t, k) == Exists(t) /\ (~Exists(k) \/ dirs[k] = {})

\* Mutant of Publish: the process goes on calling the clone its own.
PublishKeepsTmp(p) ==
    /\ pc[p] = "won" /\ CanRename(mine[p], key[p])
    /\ mine' = [mine EXCEPT ![p] = key[p]]
    /\ Goto(p, "got")
    /\ dirs' = [dirs EXCEPT ![key[p]] = dirs[mine[p]], ![mine[p]] = NoDir]
    /\ UNCHANGED <<root, key, sub, cleanVars, orphans>>

\* tmp_dir.rename(clone_dir): the OSError it raises when the name has been
\* taken is caught nowhere, and the temporary directory stays.
Publish(p) ==
    /\ pc[p] = "won"
    /\ mine' = [mine EXCEPT ![p] = NoTmp]
    /\ \/ /\ CanRename(mine[p], key[p])
          /\ Goto(p, "got")
          /\ dirs' = [dirs EXCEPT ![key[p]] = dirs[mine[p]], ![mine[p]] = NoDir]
          /\ at' = [c \in Cleaners |-> CASE at[c] = mine[p] -> key[p]
                                       [] at[c] = key[p] -> NoTmp
                                       [] OTHER -> at[c]]
          /\ UNCHANGED orphans
       \/ /\ ~CanRename(mine[p], key[p])
          /\ Goto(p, "oserror")
          /\ orphans' = orphans \cup {mine[p]}
          /\ UNCHANGED <<dirs, at>>
    /\ UNCHANGED <<root, key, sub, stage, todo, cur, items, swept>>

\* GitRepoFile.path after clone() has returned: the subdirectory, if one
\* was asked for, has to be there.
Serve(p) ==
    /\ pc[p] = "got"
    /\ \E s \in Subs :
          /\ sub' = [sub EXCEPT ![p] = s]
          /\ Goto(p, IF s = Root \/ (Exists(key[p]) /\ s \in dirs[key[p]])
                     THEN "served" ELSE "nosubdir")
    /\ UNCHANGED <<root, dirs, key, mine, cleanVars, orphans>>

\* The next resource of the process, or the next run of topwrap.
Again(p) ==
    /\ pc[p] \in Ended
    /\ Goto(p, "idle")
    /\ key' \in {[key EXCEPT ![p] = k] : k \in Keys}
    /\ sub' = [sub EXCEPT ![p] = Root]
    /\ UNCHANGED <<root, dirs, mine, cleanVars, orphans>>

\* The process is killed at any point of a clone and started again; what it
\* has written stays.
Kill(p) ==
    /\ pc[p] \notin Ended \cup {"idle"}
    /\ Goto(p, "idle")
    /\ mine' = [mine EXCEPT ![p] = NoTmp]
    /\ orphans' = orphans \cup ({mine[p]} \ {NoTmp})
    /\ UNCHANGED <<root, dirs, key, sub, cleanVars>>
-----------------------------------------------------------------------------
(***************************************************************************)
(* clean-cache: shutil.rmtree(cache_dir), which lists a directory once,    *)
(* removes what it has listed through the open directory, then the         *)
(* directory by its name.  The first OSError ends it; before Python 3.13   *)
(* an entry that somebody else removed is such an error, since then it is  *)
(* passed over (pyproject.toml admits both).                               *)
(***************************************************************************)
CleanStart(c) ==
    /\ stage[c] = "idle" /\ root
    /\ stage' = [stage EXCEPT ![c] = "listed"]
    /\ todo' = [todo EXCEPT ![c] = {n \in Names : Exists(n)}]
    /\ swept' = TRUE
    /\ UNCHANGED <<root, dirs, procVars, cur, at, items, orphans>>

\* Opens the next entry and lists it.
CleanEnter(c) ==
    /\ stage[c] = "listed"
    /\ \E n \in todo[c] :
          /\ Exists(n)
          /\ todo' = [todo EXCEPT ![c] = @ \ {n}]
          /\ cur' = [cur EXCEPT ![c] = n]
          /\ at' = [at EXCEPT ![c] = n]
          /\ items' = [items EXCEPT ![c] = dirs[n]]
    /\ stage' = [stage EXCEPT ![c] = "inside"]
    /\ UNCHANGED <<root, dirs, procVars, swept, orphans>>

\* What is left in the directory the cleaner has open.
OpenParts(c) == IF at[c] = NoTmp THEN {} ELSE dirs[at[c]]

\* Removes one part through the open directory, wherever it is by now.
CleanUnlink(c) ==
    /\ stage[c] = "inside"
    /\ \E i \in items[c] \cap OpenParts(c) :
          /\ dirs' = [dirs EXCEPT ![at[c]] = @ \ {i}]
          /\ items' = [items EXCEPT ![c] = @ \ {i}]
    /\ UNCHANGED <<root, procVars, stage, todo, cur, at, swept, orphans>>

\* Python 3.13 passes over a part or an entry that is gone.
CleanSkip(c) ==
    /\ \/ /\ stage[c] = "listed"
          /\ \E n \in todo[c] : /\ ~Exists(n)
                                /\ todo' = [todo EXCEPT ![c] = @ \ {n}]
          /\ UNCHANGED items
       \/ /\ stage[c] = "inside"
          /\ \E i \in items[c] : /\ i \notin OpenParts(c)
                                 /\ items' = [items EXCEPT ![c] = @ \ {i}]
          /\ UNCHANGED todo
    /\ UNCHANGED <<root, dirs, procVars, stage, cur, at, swept, orphans>>

\* Removes the emptied entry by its name, which may be another directory's
\* or nobody's by now.
CleanRmdir(c) ==
    /\ stage[c] = "inside" /\ items[c] = {}
    /\ dirs[cur[c]] \in {{}, NoDir}
    /\ dirs' = [dirs EXCEPT ![cur[c]] = NoDir]
    /\ stage' = [stage EXCEPT ![c] = "listed"]
    /\ cur' = [cur EXCEPT ![c] = NoTmp]
    /\ at' = [d \in Cleaners |-> IF d = c \/ at[d] = cur[c] THEN NoTmp
                                 ELSE at[d]]
    /\ UNCHANGED <<root, procVars, todo, items, swept, orphans>>

\* Removes the cache directory itself.
CleanFinish(c) ==
    /\ stage[c] = "listed" /\ todo[c] = {}
    /\ \A n \in Names : ~Exists(n)
    /\ root' = FALSE
    /\ stage' = [stage EXCEPT ![c] = "idle"]
    /\ UNCHANGED <<dirs, procVars, todo, cur, at, items, swept, orphans>>

\* rmtree raises, or the command is interrupted: what is left stays.
CleanAbort(c) ==
    /\ stage[c] # "idle"
    /\ stage' = [stage EXCEPT ![c] = "idle"]
    /\ todo' = [todo EXCEPT ![c] = {}]
    /\ cur' = [cur EXCEPT ![c] = NoTmp]
    /\ at' = [at EXCEPT ![c] = NoTmp]
    /\ items' = [items EXCEPT ![c] = {}]
    /\ UNCHANGED <<root, dirs, procVars, swept, orphans>>
-----------------------------------------------------------------------------
Clone(p) == \/ Lookup(p) \/ MakeRoot(p) \/ MakeTmp(p)
            \/ GitInit(p) \/ GitFetch(p) \/ GitCheckout(p) \/ GitFail(p)
            \/ Recheck(p) \/ DropTmp(p) \/ Publish(p) \/ Serve(p)

Clean(c) == \/ CleanStart(c) \/ CleanEnter(c) \/ CleanUnlink(c)
            \/ CleanSkip(c) \/ CleanRmdir(c) \/ CleanFinish(c)
            \/ CleanAbort(c)

Next == \/ \E p \in Procs : Clone(p) \/ Again(p) \/ Kill(p)
        \/ \E c \in Cleaners : Clean(c)

Spec == Init /\ [][Next]_vars
-----------------------------------------------------------------------------
TypeOK ==
    /\ root \in BOOLEAN /\ swept \in BOOLEAN
    /\ dirs \in [Names -> {NoDir} \cup SUBSET Parts]
    /\ pc \in [Procs -> PCs]
    /\ key \in [Procs -> Keys]
    /\ sub \in [Procs -> Subs]
    /\ mine \in [Procs -> Tmps \cup {NoTmp}]
    /\ stage \in [Cleaners -> {"idle", "listed", "inside"}]
    /\ todo \in [Cleaners -> SUBSET Names]
    /\ cur \in [Cleaners -> Names \cup {NoTmp}]
    /\ at \in [Cleaners -> Names \cup {NoTmp}]
    /\ items \in [Cleaners -> SUBSET Parts]
    /\ orphans \subseteq Tmps

(***************************************************************************)
(* As long as no clean-cache has run, a name of the cache is absent or a   *)
(* whole clone: no interleaving of clones, failures of git and kills lets  *)
(* a later lookup find a half-made one.                                    *)
(***************************************************************************)
PublishedComplete == ~swept => \A k \in Keys : dirs[k] \in {NoDir, Parts}

(***************************************************************************)
(* As long as no clean-cache has run, a process to which clone() has       *)
(* returned has a whole clone under its key, and is told that a            *)
(* subdirectory is missing only when the repository does not have it.      *)
(***************************************************************************)
ServedComplete ==
    ~swept => \A p \in Procs :
                 /\ pc[p] \in {"got", "served"} => dirs[key[p]] = Parts
                 /\ pc[p] = "nosubdir" => sub[p] = Missing

(***************************************************************************)
(* A temporary directory that is left in the cache belongs to a running    *)
(* clone, or to one that was killed or ended in an OSError: a failed git   *)
(* and a lost race clean up after themselves.                              *)
(***************************************************************************)
NoLitter == \A t \in Tmps : Exists(t) => t \in orphans \cup {mine[p] : p \in Procs}

(***************************************************************************)
(* The directory of one key is handed to many processes that read it       *)
(* without a lock.  No process that loads a resource takes a part away     *)
(* from it or puts another clone in its place.                             *)
(***************************************************************************)
PublishedStays ==
    [][\A p \in Procs, k \in Keys :
          Clone(p) /\ Cached(k) => dirs'[k] = dirs[k]]_vars

(***************************************************************************)
(* What the processes see of the cache, whatever the directories in it go  *)
(* through: CloneCache.  The step that publishes or finds a clone is the   *)
(* one at which clone() can only return.                                   *)
(***************************************************************************)
StoreState(n) == IF dirs[n] = NoDir THEN "absent"
                 ELSE IF dirs[n] = Parts THEN "whole" ELSE "damaged"

AnswerOf(l) == IF l \in {"got", "served", "nosubdir"} THEN "path"
               ELSE IF l \in {"failed", "oserror"} THEN "refused" ELSE "pending"

Cache == INSTANCE CloneCache WITH
            store <- [k \in Keys |-> StoreState(k)],
            asked <- key,
            answer <- [p \in Procs |-> AnswerOf(pc[p])],
            open <- swept

ImplementsCloneCache == Cache!Spec

(***************************************************************************)
(* clone() "[c]lones ... the repository if it isn't already cached,        *)
(* returning the local directory" (its docstring): a process does not end  *)
(* in an OSError with the clone it wanted in the cache.                    *)
(***************************************************************************)
ReturnsTheClone == \A p \in Procs : pc[p] = "oserror" => ~Cached(key[p])
=============================================================================
