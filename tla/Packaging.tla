----------------------------- MODULE Packaging -----------------------------
(***************************************************************************)
(* How a client packs the code of a function or module: the local modules  *)
(* it imports are collected (DependencyAnalyzer), the directories of the   *)
(* project they name are added (DependencyPackager), and the archive is    *)
(* taken from or put into a cache of archives that the processes of a user *)
(* share (controlplane/dependency.py, controlplane/artifact.py).           *)
(*                                                                         *)
(* A module is its file.  What Python's importer finds for an import       *)
(* statement is given by the sets below; the text of a file is a version   *)
(* number and the modules it imports.                                      *)
(***************************************************************************)
EXTENDS Integers, Sequences

CONSTANTS
  Files,       \* modules outside of the standard library and of site-packages
  Entry,       \* the module that is packed
  Project,     \* the modules below the project root of Entry
  Top,         \* the top directory or module of each one
  Parents,     \* the __init__ modules of the packages each one is in
  ImportSets,  \* what an edit may make a module import
  Packers,     \* calls that pack, in any process of the user
  MaxEdits,    \* bound: edits of files
  MaxCached    \* PYCLOUD_PACKAGE_CACHE_MAX_ENTRIES

ASSUME PackagingAssumption ==
  /\ Entry \in Project /\ Project \subseteq Files
  /\ Parents \in [Files -> SUBSET Files] /\ ImportSets \subseteq SUBSET Files
  /\ MaxEdits \in Nat /\ MaxCached \in Nat \ {0}

VARIABLES
  src,     \* the files: text (ver, imports) and modification time
  edits,   \* edits so far
  cache,   \* the cached archives, oldest first: key and archive
  packer   \* the calls

packVars == <<src, edits, cache, packer>>

None == [f \in {} |-> 0]
NewPacker == [pc |-> "new", todo |-> {}, seen |-> {}, tops |-> {}, key |-> None, out |-> None,
              edited |-> FALSE]
Entries(p) == packer[p].seen
Packing == {p \in Packers : packer[p].pc \notin {"new", "done"}}

PackInit ==
  /\ src = [f \in Files |-> [ver |-> 0, mtime |-> 0, imports |-> {}]]
  /\ edits = 0 /\ cache = <<>> /\ packer = [p \in Packers |-> NewPacker]

-----------------------------------------------------------------------------
(* Collecting. *)

Pack(p) ==
  /\ packer[p].pc = "new"
  /\ packer' = [packer EXCEPT ![p] = [NewPacker EXCEPT !.pc = "collect", !.todo = {Entry}]]
  /\ UNCHANGED <<src, edits, cache>>

\* _collect_loaded_module_infos: one module of the work list; the packages it
\* is in and the modules it imports are next.
Visit(p, f) ==
  /\ packer[p].pc = "collect" /\ f \in packer[p].todo
  /\ packer' = [packer EXCEPT ![p].seen = @ \cup {f},
                              ![p].todo = (@ \cup Parents[f] \cup src[f].imports)
                                            \ (packer[p].seen \cup {f})]
  /\ UNCHANGED <<src, edits, cache>>

\* _expand_entries_with_project_import_roots, one round: the tops of the project
\* that the packed files import and that were not looked at, with all they hold.
Expand(p) ==
  LET tops  == {Top[g] : g \in UNION {src[f].imports : f \in Entries(p)}}
                 \cup {Top[f] : f \in Entries(p) \ {Entry}}
      fresh == {g \in Project : Top[g] \in tops \ packer[p].tops} \ Entries(p)
  IN
  /\ packer[p].pc \in {"collect", "expand"} /\ packer[p].todo = {}
  /\ packer' = [packer EXCEPT ![p].pc = IF fresh = {} THEN "key" ELSE "expand",
                              ![p].seen = @ \cup fresh, ![p].tops = @ \cup tops]
  /\ UNCHANGED <<src, edits, cache>>

-----------------------------------------------------------------------------
(* _write_cached_deterministic_targz. *)

\* Mutant: the fingerprint of a file is its name and its size.
MutFingerprint(f) == 0

\* _entry_fingerprint: the metadata of a file stand for its content.
Fingerprint(f) == src[f].mtime

TakeKey(p) ==
  /\ packer[p].pc = "key"
  /\ packer' = [packer EXCEPT ![p].pc = "lookup",
                              ![p].key = [f \in Entries(p) |-> Fingerprint(f)]]
  /\ UNCHANGED <<src, edits, cache>>

Cached(key) == {i \in DOMAIN cache : cache[i].key = key}
Copy(p, i)  == packer' = [packer EXCEPT ![p].pc = "done", ![p].out = cache[i].out]

\* _copy_cached_targz_if_available, before the archive is written ...
Hit(p) ==
  /\ packer[p].pc = "lookup"
  /\ \E i \in Cached(packer[p].key) : Copy(p, i)
  /\ UNCHANGED <<src, edits, cache>>

Miss(p) ==
  /\ packer[p].pc = "lookup" /\ Cached(packer[p].key) = {}
  /\ packer' = [packer EXCEPT ![p].pc = "write"]
  /\ UNCHANGED <<src, edits, cache>>

\* _write_deterministic_targz reads one file after the other.
WriteFile(p, f) ==
  /\ packer[p].pc = "write" /\ f \in Entries(p) \ DOMAIN packer[p].out
  /\ \A g \in Entries(p) \ DOMAIN packer[p].out : f <= g
  /\ packer' = [packer EXCEPT ![p].out = [g \in DOMAIN @ \cup {f} |->
                                            IF g = f THEN src[f].ver ELSE @[g]]]
  /\ UNCHANGED <<src, edits, cache>>

Pruned(c) == IF Len(c) > MaxCached THEN Tail(c) ELSE c

\* ... and after it: another process may have stored the same key by then, and
\* its archive is the one that is used; otherwise this one is stored and the
\* oldest archives beyond the limit are removed.
Store(p) ==
  /\ packer[p].pc = "write" /\ Entries(p) = DOMAIN packer[p].out
  /\ \/ /\ Cached(packer[p].key) # {} /\ \E i \in Cached(packer[p].key) : Copy(p, i)
        /\ UNCHANGED cache
     \/ /\ Cached(packer[p].key) = {}
        /\ cache' = Pruned(Append(cache, [key |-> packer[p].key, out |-> packer[p].out]))
        /\ packer' = [packer EXCEPT ![p].pc = "done"]
  /\ UNCHANGED <<src, edits>>

-----------------------------------------------------------------------------
\* The user edits a file; packing does not stop for it.
Edit(f, imports) ==
  /\ edits < MaxEdits /\ edits' = edits + 1
  /\ src' = [src EXCEPT ![f] = [ver |-> edits + 1, mtime |-> edits + 1, imports |-> imports \ {f}]]
  /\ packer' = [p \in Packers |-> [packer[p] EXCEPT !.edited = @ \/ p \in Packing,
                                                    !.pc = IF @ = "done" THEN "old" ELSE @]]
  /\ UNCHANGED cache

PackStep(p) ==
  \/ Pack(p) \/ Expand(p) \/ TakeKey(p) \/ Hit(p) \/ Miss(p) \/ Store(p)
  \/ \E f \in Files : Visit(p, f) \/ WriteFile(p, f)

PackNext ==
  \/ \E p \in Packers : PackStep(p)
  \/ \E f \in Files, imports \in ImportSets : Edit(f, imports)

PackSpec == PackInit /\ [][PackNext]_packVars

-----------------------------------------------------------------------------
(* What must hold. *)

\* A set of modules that an interpreter can import without any other local one.
Closed(S) == \A f \in S : Parents[f] \cup src[f].imports \subseteq S

\* A package that was made while no file changed can be imported on a node: it
\* has every local module that importing the entry runs, wherever it is and
\* through whatever chain of imports and packages.
\* (_collect_loaded_module_infos, controlplane/dependency.py)
SelfContained ==
  \A p \in Packers : packer[p].pc = "done" /\ ~packer[p].edited =>
    Entry \in DOMAIN packer[p].out
    /\ \E S \in SUBSET DOMAIN packer[p].out : Entry \in S /\ Closed(S)

\* Such a package has the text the files have: no archive of the cache, though
\* it was stored by a call during which files changed, passes for a newer one.
\* (_entries_cache_key, _store_cached_targz, controlplane/dependency.py)
PackageCurrent ==
  \A p \in Packers : packer[p].pc = "done" /\ ~packer[p].edited =>
    \A f \in DOMAIN packer[p].out : packer[p].out[f] = src[f].ver

\* The package a node gets is the program: all of it, and as it is now.
PackageRight == SelfContained /\ PackageCurrent
=============================================================================
