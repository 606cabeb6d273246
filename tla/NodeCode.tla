------------------------------ MODULE NodeCode ------------------------------
(***************************************************************************)
(* The code a node keeps for its services and task pools: uploads          *)
(* (put_code), the installation of dependencies and the trial load         *)
(* (_ensure_artifact_ready), what a create that fails throws away          *)
(* (_discard_new_code_artifact) and what a rebuilt executor host needs     *)
(* (controlplane/nodecontrol_state.py, controlplane/node/execution.py,     *)
(* controlplane/node/filesystem.py).                                       *)
(*                                                                         *)
(* Creates of one code version share a directory on disk: the package,     *)
(* which is never removed, and the variant directory with dependencies,    *)
(* data and meta.json.  An artifact is named by the create that stored it. *)
(* The definitions that a composition must tell apart from those of other  *)
(* parts of the node are named Code....                                    *)
(***************************************************************************)
EXTENDS Integers

CONSTANTS
  Creates,   \* calls of create_service and create_task_pool: numbers from 1
  Versions   \* code versions, numbers from 1

ASSUME NodeCodeAssumption == Creates \subseteq Nat \ {0} /\ Versions \subseteq Nat \ {0}

VARIABLES
  codes,    \* _codes: the artifact of a version, 0 when there is none
  disk,     \* the variant directory of each version
  depOf,    \* dependency_path of each artifact is set
  wlock,    \* the content and the variant lock of a version: the holder, or 0
  make,     \* the creates
  rebuild,  \* _executor_rebuild_in_progress with its targets
  overlap   \* history: two creates of a version were under way together

codeVars == <<codes, disk, depOf, wlock, make, rebuild, overlap>>

Bare == [dir |-> FALSE, deps |-> FALSE, meta |-> FALSE]
NewMake == [pc |-> "new", ver |-> 0, deps |-> "none", async |-> FALSE, art |-> 0,
            cached |-> FALSE, fresh |-> FALSE]

Making == {"lookup", "files", "register", "meta", "install", "load", "repair", "reload", "executor",
           "drop", "rmtree"}
Under(v) == {c \in Creates : make[c].ver = v /\ make[c].pc \in Making}
LiveSessions == {c \in Creates : make[c].pc = "live"}
Step(c, l) == make' = [make EXCEPT ![c].pc = l]
At(c, l)   == make[c].pc = l
Ver(c)     == make[c].ver

CodeInit ==
  /\ codes = [v \in Versions |-> 0] /\ disk = [v \in Versions |-> Bare]
  /\ depOf = [a \in Creates |-> FALSE] /\ wlock = [v \in Versions |-> 0]
  /\ make = [c \in Creates |-> NewMake] /\ rebuild = [on |-> FALSE, targets |-> {}]
  /\ overlap = FALSE

-----------------------------------------------------------------------------
(* put_code. *)

\* What the entry module of a version imports beyond the package: nothing, what
\* its allowlist names, or more than that.
Deps == {"none", "full", "short"}

\* A create arrives with its code; the digest of the code, the allowlist and the
\* entry make the version.
Upload(c, v, deps, async) ==
  /\ At(c, "new")
  /\ \A d \in Creates : make[d].ver = v => make[d].deps = deps
  /\ make' = [make EXCEPT ![c] = [NewMake EXCEPT !.pc = "lookup", !.ver = v, !.deps = deps,
                                   !.async = async]]
  /\ overlap' = (overlap \/ Under(v) # {})
  /\ UNCHANGED <<codes, disk, depOf, wlock, rebuild>>

\* put_code_from_uploaded_file: under the write locks, a version that is there
\* is used again.
Lookup(c) ==
  /\ At(c, "lookup") /\ wlock[Ver(c)] = 0
  /\ IF codes[Ver(c)] # 0
       THEN /\ make' = [make EXCEPT ![c].pc = "install", ![c].cached = TRUE,
                                    ![c].art = codes[Ver(c)]]
            /\ UNCHANGED wlock
       ELSE Step(c, "files") /\ wlock' = [wlock EXCEPT ![Ver(c)] = c]
  /\ UNCHANGED <<codes, disk, depOf, rebuild, overlap>>

\* The directories and the package ...
WriteFiles(c) ==
  /\ At(c, "files") /\ Step(c, "register")
  /\ disk' = [disk EXCEPT ![Ver(c)].dir = TRUE]
  /\ UNCHANGED <<codes, depOf, wlock, rebuild, overlap>>

\* ... which is extracted when it is an archive.  One that cannot be ends the
\* create; nothing was registered.
FilesFail(c) ==
  /\ At(c, "files") /\ Step(c, "failed")
  /\ disk' = [disk EXCEPT ![Ver(c)].dir = TRUE] /\ wlock' = [wlock EXCEPT ![Ver(c)] = 0]
  /\ UNCHANGED <<codes, depOf, rebuild, overlap>>

Register(c) ==
  /\ At(c, "register")
  /\ codes' = [codes EXCEPT ![Ver(c)] = c]
  /\ make' = [make EXCEPT ![c].pc = "meta", ![c].art = c]
  /\ UNCHANGED <<disk, depOf, wlock, rebuild, overlap>>

\* _write_code_meta makes the directory again if it has gone.
WriteMeta(c) ==
  /\ At(c, "meta") /\ Step(c, "install")
  /\ disk' = [disk EXCEPT ![Ver(c)].dir = TRUE, ![Ver(c)].meta = TRUE]
  /\ wlock' = [wlock EXCEPT ![Ver(c)] = IF @ = c THEN 0 ELSE @]
  /\ UNCHANGED <<codes, depOf, rebuild, overlap>>

-----------------------------------------------------------------------------
(* _ensure_artifact_ready, outside of every lock. *)

\* The end of a create whose code is not usable.
CodeFails(c) == Step(c, "drop")

\* _install_dependency_allowlist replaces the directory as a whole; an artifact
\* that has a dependency path keeps it.
Install(c, ok) ==
  LET needed == make[c].deps # "none" /\ ~depOf[make[c].art] IN
  /\ At(c, "install")
  /\ IF needed /\ ~ok THEN CodeFails(c) /\ UNCHANGED disk
     ELSE /\ make' = [make EXCEPT ![c].pc = "load", ![c].fresh = needed]
          /\ disk' = IF needed THEN [disk EXCEPT ![Ver(c)].dir = TRUE, ![Ver(c)].deps = TRUE]
                               ELSE disk
  /\ UNCHANGED <<codes, depOf, wlock, rebuild, overlap>>

\* _validate_artifact_methods, prepare_artifact_in_host: the entry module is
\* imported with its dependencies.
Imports(c) ==
  \/ make[c].deps = "none"
  \/ make[c].deps = "full" /\ disk[Ver(c)].deps

\* The trial load passes and the artifact takes over the path.
Ready(c) ==
  /\ make' = [make EXCEPT ![c].pc = "executor"]
  /\ depOf' = [depOf EXCEPT ![make[c].art] = make[c].deps # "none"]
  /\ disk' = IF make[c].deps # "none" THEN [disk EXCEPT ![Ver(c)].dir = TRUE, ![Ver(c)].meta = TRUE]
                             ELSE disk

\* A load that fails for the lack of a module is tried again after another
\* installation; any other failure removes what this create has installed.
LoadCode(c, ok) ==
  /\ At(c, "load")
  /\ CASE ok /\ Imports(c) -> Ready(c)
       [] ~Imports(c)      -> Step(c, "repair") /\ UNCHANGED <<disk, depOf>>
       [] OTHER            -> /\ CodeFails(c)
                              /\ disk' = [disk EXCEPT ![Ver(c)].deps = @ /\ ~make[c].fresh]
                              /\ UNCHANGED <<depOf>>
  /\ UNCHANGED <<codes, wlock, rebuild, overlap>>

Repair(c, ok) ==
  /\ At(c, "repair")
  /\ IF ok THEN Step(c, "reload") /\ disk' = [disk EXCEPT ![Ver(c)].dir = TRUE, ![Ver(c)].deps = TRUE]
           ELSE CodeFails(c) /\ disk' = [disk EXCEPT ![Ver(c)].deps = FALSE]
  /\ UNCHANGED <<codes, depOf, wlock, rebuild, overlap>>

\* The load after a repair; its failure removes the directory in any case.
Reload(c, ok) ==
  /\ At(c, "reload")
  /\ IF ok /\ Imports(c) THEN Ready(c)
     ELSE CodeFails(c) /\ disk' = [disk EXCEPT ![Ver(c)].deps = FALSE] /\ UNCHANGED <<depOf>>
  /\ UNCHANGED <<codes, wlock, rebuild, overlap>>

-----------------------------------------------------------------------------
(* The rest of the create. *)

\* Workers, executor session and first globals: the service or pool is there.
Executor(c) ==
  /\ At(c, "executor") /\ Step(c, "live")
  /\ UNCHANGED <<codes, disk, depOf, wlock, rebuild, overlap>>

\* They are refused: an asynchronous create discards its code, a synchronous one
\* leaves it for the next.
NoExecutor(c) ==
  /\ At(c, "executor") /\ Step(c, IF make[c].async THEN "drop" ELSE "failed")
  /\ UNCHANGED <<codes, disk, depOf, wlock, rebuild, overlap>>

\* Mutant: a create that found its code on the node discards it as well.
MutDrop(c) ==
  /\ At(c, "drop")
  /\ codes' = [codes EXCEPT ![Ver(c)] = IF @ = make[c].art THEN 0 ELSE @] /\ Step(c, "rmtree")
  /\ UNCHANGED <<disk, depOf, wlock, rebuild, overlap>>

\* _discard_new_code_artifact: first the table, under the lock of the node ...
Drop(c) ==
  /\ At(c, "drop")
  /\ IF make[c].cached
       THEN Step(c, "failed") /\ UNCHANGED codes
       ELSE /\ codes' = [codes EXCEPT ![Ver(c)] = IF @ = make[c].art THEN 0 ELSE @]
            /\ Step(c, "rmtree")
  /\ UNCHANGED <<disk, depOf, wlock, rebuild, overlap>>

\* ... then the variant directory, under no lock.
Rmtree(c) ==
  /\ At(c, "rmtree") /\ Step(c, "failed")
  /\ disk' = [disk EXCEPT ![Ver(c)] = Bare]
  /\ UNCHANGED <<codes, depOf, wlock, rebuild, overlap>>

StopSession(c) ==
  /\ At(c, "live") /\ Step(c, "stopped")
  /\ UNCHANGED <<codes, disk, depOf, wlock, rebuild, overlap>>

\* _ensure_executor_host_alive: the targets are read under the lock ...
RebuildBegins ==
  /\ ~rebuild.on /\ LiveSessions # {}
  /\ rebuild' = [on |-> TRUE, targets |-> {<<c, codes[Ver(c)]>> : c \in LiveSessions}]
  /\ UNCHANGED <<codes, disk, depOf, wlock, make, overlap>>

\* ... and loaded again without it; a session that was loaded before is taken
\* from the cache of methods.  One whose code is gone is stopped.
RebuildEnds ==
  LET lost == {t[1] : t \in {x \in rebuild.targets : x[2] = 0}} IN
  /\ rebuild.on /\ rebuild' = [on |-> FALSE, targets |-> {}]
  /\ make' = [c \in Creates |-> IF c \in lost \cap LiveSessions
                                  THEN [make[c] EXCEPT !.pc = "lost"] ELSE make[c]]
  /\ UNCHANGED <<codes, disk, depOf, wlock, overlap>>

-----------------------------------------------------------------------------
CreateStep(c) ==
  \/ \E v \in Versions, deps \in Deps, async \in BOOLEAN : Upload(c, v, deps, async)
  \/ Lookup(c) \/ WriteFiles(c) \/ FilesFail(c) \/ Register(c) \/ WriteMeta(c)
  \/ \E ok \in BOOLEAN : Install(c, ok) \/ LoadCode(c, ok) \/ Repair(c, ok) \/ Reload(c, ok)
  \/ Executor(c) \/ NoExecutor(c) \/ Drop(c) \/ Rmtree(c) \/ StopSession(c)

CodeNext == (\E c \in Creates : CreateStep(c)) \/ RebuildBegins \/ RebuildEnds

CodeSpec == CodeInit /\ [][CodeNext]_codeVars

-----------------------------------------------------------------------------
(* What must hold. *)

\* While a version is registered, no other artifact takes its place, however
\* many creates upload it at the same time: the check and the registration are
\* two sections of the node's lock, held together by the write locks of the
\* version.  (put_code_from_uploaded_file, controlplane/nodecontrol_state.py)
OneArtifact ==
  [][\A v \in Versions : codes[v] # 0 /\ codes'[v] # 0 => codes'[v] = codes[v]]_codeVars

\* What a running service or pool needs stays on the node: its artifact is
\* registered, its variant directory and dependencies are there and no rebuild
\* of the executor host gives it up, whatever creates of the same version did
\* before or after, as long as two of them were never under way together.
\* (_discard_new_code_artifact, controlplane/nodecontrol_state.py)
CodeKept ==
  ~overlap => \A c \in Creates :
    /\ make[c].pc # "lost"
    /\ make[c].pc = "live" => /\ codes[Ver(c)] = make[c].art
                              /\ disk[Ver(c)].dir /\ Imports(c)
=============================================================================
