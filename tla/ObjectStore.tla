---------------------------- MODULE ObjectStore ----------------------------
(***************************************************************************)
(* The objects a node keeps on disk: uploads, results that tasks leave     *)
(* behind, fetched copies, pins, releases, reads and `pycloud gc`          *)
(* (controlplane/nodecontrol_state.py, node/object_meta.py,                *)
(* node/results.py, node_object_http.py, infocenter_state.py, ctl.py).     *)
(*                                                                         *)
(* An object is its content; its metadata file names the place of the      *)
(* bytes: a file of its own, or a position in a segment file that only     *)
(* grows.  The node's threads share a lock; the worker processes write the *)
(* same directory without it, so every metadata write of theirs, and every *)
(* touch of a download, is a read and a write with other steps between.    *)
(* Positions count objects, not bytes.                                     *)
(***************************************************************************)
EXTENDS Integers, Sequences, FiniteSets

CONSTANTS
  Objects,      \* contents, numbers
  Small,        \* those that go into a segment
  Refs,         \* data references, numbers
  Namings,      \* what the references may name: functions from Refs to Objects
  NodeThreads,  \* upload and download handlers of the node
  Workers,      \* worker processes
  MaxSegs,      \* bound: segment files that are ever created
  SegSize,      \* OBJECT_SEGMENT_TARGET_BYTES, in objects
  MaxStores,    \* bound: times bytes are written
  MaxGcs        \* bound: runs of `pycloud gc`

ASSUME ObjectStoreAssumption ==
  /\ Small \subseteq Objects /\ Namings \subseteq [Refs -> Objects]
  /\ NodeThreads \cap Workers = {} /\ MaxSegs \in Nat /\ SegSize \in Nat \ {0} /\ MaxStores \in Nat /\ MaxGcs \in Nat

VARIABLES
  objOf,    \* the object of a reference; it never changes
  meta,     \* the metadata files
  own,      \* objects with a file of their own
  seg,      \* the segment files
  mem,      \* _objects of the node: the place it remembers, or Nowhere
  cur,      \* _SEGMENT_WRITER_STATE of each process: its segment, or 0
  io,       \* the operation each thread or process is in
  held,     \* references whose pin was acknowledged and that nobody released
  stores,   \* history: times bytes were written
  gcs,      \* history: runs of gc
  excused,  \* history: held references that a store, a touch or gc stripped of their pin
  torn      \* history: objects whose metadata was written when the bytes were gone

objVars == <<objOf, meta, own, seg, mem, cur, io, held, stores, gcs, excused, torn>>

Nowhere == <<0, 0>>
OwnFile == <<0, 1>>
NoMeta == [on |-> FALSE, place |-> Nowhere, pins |-> {}]
AtRest == [pc |-> "rest", o |-> 0, place |-> Nowhere, old |-> NoMeta]
Threads == NodeThreads \cup Workers
Segs == 1 .. MaxSegs

ObjInit ==
  /\ objOf \in Namings
  /\ meta = [o \in Objects |-> NoMeta] /\ own = {}
  /\ seg = [s \in Segs |-> [on |-> FALSE, used |-> FALSE, bytes |-> <<>>]]
  /\ mem = [o \in Objects |-> Nowhere]
  /\ cur = [p \in {"node"} \cup Workers |-> 0]
  /\ io = [t \in Threads |-> AtRest] /\ held = {}
  /\ stores = 0 /\ gcs = 0 /\ excused = {} /\ torn = {}

\* _artifact_exists: the file of the place is there.
There(o, p) ==
  CASE p = Nowhere -> FALSE
    [] p = OwnFile -> o \in own
    [] OTHER       -> seg[p[1]].on
\* The bytes a reader finds at a place, 0 beyond the end of the file.
Found(o, p) ==
  IF p = OwnFile THEN o
  ELSE IF p[2] \in DOMAIN seg[p[1]].bytes THEN seg[p[1]].bytes[p[2]] ELSE 0

\* get_object_artifact: memory, then the metadata, then a file of the object's own.
Artifact(o) ==
  IF There(o, mem[o]) THEN mem[o]
  ELSE IF meta[o].on /\ There(o, meta[o].place) THEN meta[o].place
  ELSE IF o \in own THEN OwnFile ELSE Nowhere
\* _resolve_single_data_ref: the same in a worker, which has no memory.
OnDisk(o) ==
  IF meta[o].on /\ There(o, meta[o].place) THEN meta[o].place
  ELSE IF o \in own THEN OwnFile ELSE Nowhere

Process(t) == IF t \in Workers THEN t ELSE "node"
Rests(t) == io[t].pc = "rest"
HeldFor(o) == {r \in held : objOf[r] = o}

-----------------------------------------------------------------------------
(* Storing. *)

\* put_object_from_uploaded_file: an object the node has is not stored again.
Put(t, o) ==
  /\ Rests(t) /\ t \in NodeThreads
  /\ \A u \in NodeThreads : ~(io[u].o = o /\ io[u].pc \in {"bytes", "meta", "mem"})
  /\ LET p == OnDisk(o) IN
     IF There(o, mem[o]) THEN UNCHANGED <<mem, io>>
     ELSE IF meta[o].on /\ There(o, meta[o].place)
       THEN mem' = [mem EXCEPT ![o] = p] /\ UNCHANGED io
       ELSE io' = [io EXCEPT ![t] = [AtRest EXCEPT !.pc = "bytes", !.o = o]] /\ UNCHANGED mem
  /\ UNCHANGED <<meta, own, seg, cur, held, stores, gcs, excused, torn>>

\* _commit_result_segment, _commit_result_file: a result is stored whether or
\* not the node has its content.
Commit(w, o) ==
  /\ Rests(w) /\ w \in Workers
  /\ io' = [io EXCEPT ![w] = [AtRest EXCEPT !.pc = "bytes", !.o = o]]
  /\ UNCHANGED <<meta, own, seg, mem, cur, held, stores, gcs, excused, torn>>

Fits(s) == s # 0 /\ seg[s].on /\ Len(seg[s].bytes) < SegSize

\* The writer goes on in its own segment while that is there and has room.
SegmentFor(p) ==
  IF Fits(cur[p]) THEN {cur[p]} ELSE {s \in Segs : ~seg[s].used /\ \A q \in 1 .. s - 1 : seg[q].used}

\* _append_bytes_to_segment: the bytes, under the lock of the segment writer.
Append2Segment(t) ==
  LET o == io[t].o IN
  /\ io[t].pc = "bytes" /\ o \in Small /\ stores < MaxStores /\ stores' = stores + 1
  /\ \E s \in SegmentFor(Process(t)) :
       /\ seg' = [seg EXCEPT ![s] = [on |-> TRUE, used |-> TRUE, bytes |-> Append(@.bytes, o)]]
       /\ cur' = [cur EXCEPT ![Process(t)] = s]
       /\ io' = [io EXCEPT ![t].pc = "meta", ![t].place = <<s, Len(seg[s].bytes) + 1>>]
  /\ UNCHANGED <<meta, own, mem, held, gcs, excused, torn>>

\* os.replace to the path of the object: what is too large for a segment, and
\* the files and frames a task returns (_commit_result_file), whatever their size.
ReplaceFile(t) ==
  LET o == io[t].o IN
  /\ io[t].pc = "bytes" /\ (o \notin Small \/ t \in Workers)
  /\ own' = own \cup {o}
  /\ stores < MaxStores /\ stores' = stores + 1
  /\ io' = [io EXCEPT ![t].pc = "meta", ![t].place = OwnFile]
  /\ UNCHANGED <<meta, seg, mem, cur, held, gcs, excused, torn>>

\* _cache_remote_data_ref: a worker that misses the object fetches it from
\* another node into a file of its own.
Fetch(w, o) ==
  /\ Rests(w) /\ w \in Workers /\ OnDisk(o) = Nowhere
  /\ own' = own \cup {o}
  /\ stores < MaxStores /\ stores' = stores + 1
  /\ io' = [io EXCEPT ![w] = [AtRest EXCEPT !.pc = "meta", !.o = o, !.place = OwnFile]]
  /\ UNCHANGED <<meta, seg, mem, cur, held, gcs, excused, torn>>

\* A metadata file is replaced: the references it no longer names lose their pin.
Writes(o, m) ==
  /\ meta' = [meta EXCEPT ![o] = m]
  /\ excused' = excused \cup (HeldFor(o) \ m.pins)
  /\ torn' = IF There(o, m.place) THEN torn \ {o} ELSE torn \cup {o}

\* _write_object_meta: the object is listed, without any pin.
StoreMeta(t) ==
  LET o == io[t].o IN
  /\ io[t].pc = "meta"
  /\ Writes(o, [on |-> TRUE, place |-> io[t].place, pins |-> {}])
  /\ io' = [io EXCEPT ![t] = IF t \in Workers THEN AtRest ELSE [@ EXCEPT !.pc = "mem"]]
  /\ UNCHANGED <<own, seg, mem, cur, held, stores, gcs>>

\* The node remembers the object it stored.
Remember(t) ==
  /\ io[t].pc = "mem"
  /\ mem' = [mem EXCEPT ![io[t].o] = io[t].place]
  /\ io' = [io EXCEPT ![t] = AtRest]
  /\ UNCHANGED <<meta, own, seg, cur, held, stores, gcs, excused, torn>>

-----------------------------------------------------------------------------
(* Reading. *)

\* A download of the node, or a task's argument in a worker: the place is
\* looked up, then last_at is touched, then the file is opened.
Lookup4Read(t, o) ==
  LET p == IF t \in Workers THEN OnDisk(o) ELSE Artifact(o) IN
  /\ Rests(t) /\ p # Nowhere
  /\ io' = [io EXCEPT ![t] = [pc |-> "touch", o |-> o, place |-> p, old |-> meta[o]]]
  /\ mem' = IF t \in Workers THEN mem ELSE [mem EXCEPT ![o] = p]
  /\ UNCHANGED <<meta, own, seg, cur, held, stores, gcs, excused, torn>>

\* _touch_object_last_at, when the last touch was long enough ago: what was read
\* is written back; an object without metadata gets that of a file.
Touch(t) ==
  LET o == io[t].o
      m == io[t].old
  IN /\ io[t].pc = "touch"
     /\ IF m.on THEN Writes(o, m)
        ELSE IF There(o, io[t].place) THEN Writes(o, [on |-> TRUE, place |-> OwnFile, pins |-> {}])
        ELSE UNCHANGED <<meta, excused, torn>>
     /\ io' = [io EXCEPT ![t].pc = "open", ![t].old = NoMeta]
     /\ UNCHANGED <<own, seg, mem, cur, held, stores, gcs>>

\* touch_object_last_at_throttled: touched a moment ago.
SkipTouch(t) ==
  /\ io[t].pc = "touch" /\ io' = [io EXCEPT ![t].pc = "open", ![t].old = NoMeta]
  /\ UNCHANGED <<meta, own, seg, mem, cur, held, stores, gcs, excused, torn>>

\* The bytes are read, or the file is missing.
Open(t) ==
  /\ io[t].pc = "open" /\ io' = [io EXCEPT ![t] = AtRest]
  /\ UNCHANGED <<meta, own, seg, mem, cur, held, stores, gcs, excused, torn>>

-----------------------------------------------------------------------------
(* Pins. *)

\* pin_object, under the lock of the node: the reference is written into the
\* metadata; metadata that is missing is made up for the file that is there.
Pin(r) ==
  LET o == objOf[r]
      p == IF mem[o] # Nowhere THEN mem[o] ELSE IF meta[o].on THEN meta[o].place ELSE Nowhere
  IN /\ r \notin held
     /\ mem' = [mem EXCEPT ![o] = p]
     /\ IF meta[o].on
          THEN /\ meta' = [meta EXCEPT ![o].pins = @ \cup {r}]
               /\ held' = held \cup {r} /\ UNCHANGED torn
          ELSE IF There(o, p)
          THEN /\ meta' = [meta EXCEPT ![o] = [on |-> TRUE, place |-> OwnFile, pins |-> {r}]]
               /\ held' = held \cup {r}
               /\ torn' = IF o \in own THEN torn ELSE torn \cup {o}
          ELSE UNCHANGED <<meta, held, torn>>
     /\ excused' = excused \ {r}
     /\ UNCHANGED <<own, seg, cur, io, stores, gcs>>

\* _cleanup_orphan_segment_file: a segment no metadata names is removed.
Orphan(s, m) == \A o \in Objects : ~(m[o].on /\ m[o].place[1] = s)
Cleanup(s, m) == s # 0 /\ Orphan(s, m)

\* _delete_object_artifact_locked: memory tells where the bytes are.
DeleteArtifact(o, p) ==
  /\ mem' = [mem EXCEPT ![o] = Nowhere]
  /\ meta' = [meta EXCEPT ![o] = NoMeta]
  /\ own' = IF p = OwnFile THEN own \ {o} ELSE own
  /\ seg' = [s \in Segs |-> IF s = p[1] /\ Cleanup(s, [meta EXCEPT ![o] = NoMeta])
                              THEN [seg[s] EXCEPT !.on = FALSE, !.bytes = <<>>] ELSE seg[s]]

\* Mutant: the first release of an object deletes it.
MutReleaseRef(r) ==
  LET o == objOf[r]
      p == IF mem[o] # Nowhere THEN mem[o] ELSE meta[o].place
  IN /\ r \in held /\ held' = held \ {r} /\ excused' = excused \ {r}
     /\ IF ~meta[o].on
          THEN /\ mem' = [mem EXCEPT ![o] = p] /\ UNCHANGED <<meta, own, seg>>
          ELSE DeleteArtifact(o, p)
     /\ UNCHANGED <<cur, io, stores, gcs, torn>>

\* release_object: the holder of a reference gives its pin back; without any
\* pin left the object is deleted.
ReleaseRef(r) ==
  LET o == objOf[r]
      left == meta[o].pins \ {r}
      p == IF mem[o] # Nowhere THEN mem[o] ELSE meta[o].place
  IN /\ r \in held /\ held' = held \ {r} /\ excused' = excused \ {r}
     /\ IF ~meta[o].on
          THEN /\ mem' = [mem EXCEPT ![o] = p] /\ UNCHANGED <<meta, own, seg>>
          ELSE IF left # {}
          THEN /\ meta' = [meta EXCEPT ![o].pins = left] /\ mem' = [mem EXCEPT ![o] = p]
               /\ UNCHANGED <<own, seg>>
          ELSE DeleteArtifact(o, p)
     /\ UNCHANGED <<cur, io, stores, gcs, torn>>

-----------------------------------------------------------------------------
(* gc. *)

Rank(L, i) == Cardinality({j \in L : j <= i})
\* Mutant: positions are those of the uncompacted file.
MutPosition(L, i) == i
Position(L, i) == Rank(L, i)

\* _cmd_gc, which asks for a stopped node (started again after it, with nothing
\* in memory): D, the objects that are not recently used and that no managed
\* global and no reference the InfoCenter lists names, go; pins are not looked
\* at.  Segments nothing names go, the others keep what is named.
Gc(D) ==
  LET m == [o \in Objects |-> IF o \in D THEN NoMeta ELSE meta[o]]
      Live(s) == {i \in DOMAIN seg[s].bytes : \E o \in Objects : m[o].on /\ m[o].place = <<s, i>>}
  IN /\ gcs < MaxGcs /\ D \subseteq {o \in Objects : meta[o].on}
     /\ gcs' = gcs + 1
     /\ meta' = [o \in Objects |->
                   IF m[o].on /\ m[o].place \notin {Nowhere, OwnFile}
                     THEN [m[o] EXCEPT !.place[2] = Position(Live(m[o].place[1]), @)] ELSE m[o]]
     /\ own' = own \ {o \in D : meta[o].place = OwnFile}
     /\ seg' = [s \in Segs |->
                  IF Live(s) = {} THEN [seg[s] EXCEPT !.on = FALSE, !.bytes = <<>>]
                  ELSE [seg[s] EXCEPT !.bytes =
                          [k \in 1 .. Cardinality(Live(s)) |->
                             seg[s].bytes[CHOOSE i \in Live(s) : Rank(Live(s), i) = k]]]]
     /\ excused' = excused \cup {r \in held : objOf[r] \in D}
     /\ mem' = [o \in Objects |-> Nowhere] /\ cur' = [p \in DOMAIN cur |-> 0]
     /\ io' = [t \in Threads |-> AtRest]
     /\ UNCHANGED <<held, stores, torn>>

-----------------------------------------------------------------------------
ObjNext ==
  /\ UNCHANGED objOf
  /\ \/ \E t \in Threads, o \in Objects : Put(t, o) \/ Commit(t, o) \/ Fetch(t, o) \/ Lookup4Read(t, o)
     \/ \E t \in Threads : Append2Segment(t) \/ ReplaceFile(t) \/ StoreMeta(t) \/ Remember(t)
     \/ \E t \in Threads : Touch(t) \/ SkipTouch(t) \/ Open(t)
     \/ \E r \in Refs : Pin(r) \/ ReleaseRef(r)
     \/ \E D \in SUBSET Objects : Gc(D)

ObjSpec == ObjInit /\ [][ObjNext]_objVars

-----------------------------------------------------------------------------
(* Properties. *)

\* Whatever becomes of an object between the lookup of its place and the
\* opening of the file (a release, a second copy, a restart with gc), a reader
\* that finds the file reads the object's own bytes (_handle_download,
\* _compact_segment_file).
ReadRight ==
  \A t \in Threads : LET o == io[t].o IN
    io[t].pc = "open" /\ There(o, io[t].place) => Found(o, io[t].place) = o

\* A reference whose pin the node acknowledged keeps its object readable until
\* it is released, unless its pin was lost in one of the ways the code has: a
\* store or a touch that wrote the metadata over it, gc, or metadata written
\* when the segment was already gone (pin_object, release_object,
\* _cleanup_orphan_segment_file).
PinnedKept ==
  \A r \in held \ excused : objOf[r] \notin torn => Artifact(objOf[r]) # Nowhere
=============================================================================
