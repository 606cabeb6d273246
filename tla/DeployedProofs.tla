--------------------------- MODULE DeployedProofs ---------------------------
(***************************************************************************)
(* Proofs, for every value of the constants, about what a client puts on   *)
(* the nodes and keeps there: the package of its code (Packaging), the     *)
(* code on a node's disk (NodeCode), the session of the replicas           *)
(* (ReplicaSession), and the objects of a node (ObjectStore).              *)
(***************************************************************************)
EXTENDS Packaging, NodeCode, ReplicaSession, ObjectStore, FiniteSetTheorems, TLAPS

-----------------------------------------------------------------------------
(* NodeCode: its types. *)

CodePcs  == {"new", "live", "failed", "stopped", "lost"} \cup Making
MakeType == [pc : CodePcs, ver : Versions \cup {0}, deps : Deps, async : BOOLEAN,
             art : Creates \cup {0}, cached : BOOLEAN, fresh : BOOLEAN]
DiskType == [dir : BOOLEAN, deps : BOOLEAN, meta : BOOLEAN]
\* Steps of a create in which its artifact is registered, as far as it knows.
Using    == {"meta", "install", "load", "repair", "reload", "executor", "drop"}

\* Types of the variables; a create has a version from its upload on, an artifact
\* from the registration or the lookup on, and its version says what it imports.
CodeTypes ==
  /\ codes \in [Versions -> Creates \cup {0}]
  /\ disk \in [Versions -> DiskType]
  /\ depOf \in [Creates -> BOOLEAN]
  /\ wlock \in [Versions -> Creates \cup {0}]
  /\ make \in [Creates -> MakeType]
  /\ rebuild \in [on : BOOLEAN, targets : SUBSET (Creates \X (Creates \cup {0}))]
  /\ overlap \in BOOLEAN
  /\ \A c \in Creates : make[c].ver = 0 <=> make[c].pc = "new"
  /\ \A c \in Creates : make[c].pc \in Using \cup {"live"}
                          => make[c].art \in Creates /\ make[make[c].art].ver = make[c].ver
  /\ \A v \in Versions : codes[v] # 0 => make[codes[v]].ver = v
  /\ \A c, d \in Creates : make[c].ver = make[d].ver => make[c].deps = make[d].deps

\* Between the lookup and the registration a create has the write locks of its
\* version, which is not registered.
Locked ==
  \A c \in Creates :
    /\ make[c].pc \in {"files", "register", "meta"} => wlock[Ver(c)] = c
    /\ make[c].pc \in {"files", "register"} => codes[Ver(c)] = 0

\* The artifact is complete: directory, dependencies and their path.
Complete(c) == disk[Ver(c)].dir /\ Imports(c) /\ depOf[make[c].art] = (make[c].deps # "none")

\* A create that brings its code itself.
Bringing(c) == make[c].pc \in Making \ {"lookup"} /\ ~make[c].cached

\* One create of a version at a time.
OneAtATime ==
  \A c, d \in Creates : Ver(c) = Ver(d) /\ make[c].pc \in Making /\ make[d].pc \in Making => c = d

\* What a create and a session use is what is registered, and no rebuild misses it.
Registered ==
  /\ \A c \in Creates : /\ make[c].pc \in Using \cup {"live"} => codes[Ver(c)] = make[c].art
                        /\ make[c].pc \in {"files", "register", "rmtree"} => codes[Ver(c)] = 0
                        /\ make[c].pc # "lost"
  /\ \A t \in rebuild.targets : t[2] # 0

\* A create brings its code only where no session uses it, and under its own name.
BringsFirst ==
  /\ \A c \in Creates : make[c].pc \in {"lookup", "files", "register", "meta", "repair", "reload", "rmtree"}
                          => ~make[c].cached
  /\ \A c \in Creates : make[c].pc = "lookup" => ~make[c].fresh
  /\ \A c \in Creates : Bringing(c) /\ make[c].pc \in Using => make[c].art = c
  /\ \A c, d \in Creates : Bringing(c) /\ Ver(d) = Ver(c) => make[d].pc # "live"

\* What is used without having been brought is complete.
UsedOk(c) ==
  /\ make[c].pc \in {"install", "load", "repair", "reload", "executor"} => disk[Ver(c)].dir
  /\ make[c].pc \in {"executor", "live"} => Complete(c)
  /\ make[c].pc \in Using /\ make[c].cached => Complete(c) /\ ~make[c].fresh
UsedComplete == \A c \in Creates : UsedOk(c)

\* So is what is registered while nobody brings the version.
RestOk(v) ==
  codes[v] # 0 /\ (\A c \in Creates : Ver(c) = v => ~Bringing(c))
    => LET a == codes[v] IN
       disk[v].dir /\ Imports(a) /\ depOf[a] = (make[a].deps # "none")
RestComplete == \A v \in Versions : RestOk(v)

CodeSound == ~overlap => OneAtATime /\ Registered /\ BringsFirst /\ UsedComplete /\ RestComplete
CodeInv == CodeTypes /\ Locked /\ CodeSound

\* What a step does to a create: it goes on to l and has this artifact, cached or not.
Goes(c, l, art, cached, fresh) ==
  /\ make' \in [Creates -> MakeType]
  /\ \A d \in Creates : d # c => make'[d] = make[d]
  /\ make'[c].ver = make[c].ver /\ make'[c].deps = make[c].deps
  /\ make'[c].pc = l /\ make'[c].art = art /\ make'[c].cached = cached /\ make'[c].fresh = fresh

\* Steps that set the fields of one create are such steps.
LEMMA GoesOn ==
  ASSUME CodeTypes, NEW c \in Creates, NEW l \in CodePcs, NEW r,
         r = [make[c] EXCEPT !.pc = l], make' = [make EXCEPT ![c] = r]
  PROVE  Goes(c, l, make[c].art, make[c].cached, make[c].fresh)
<1>1. make[c] \in MakeType
  BY DEF CodeTypes
<1>2. r \in MakeType /\ r.pc = l /\ r.ver = make[c].ver /\ r.deps = make[c].deps /\ r.art = make[c].art
      /\ r.cached = make[c].cached /\ r.fresh = make[c].fresh
  BY <1>1 DEF MakeType
<1> QED
  BY <1>2 DEF CodeTypes, Goes

\* Step is one.
LEMMA StepGoes ==
  ASSUME CodeTypes, NEW c \in Creates, NEW l \in CodePcs, Step(c, l)
  PROVE  Goes(c, l, make[c].art, make[c].cached, make[c].fresh)
<1> DEFINE r == [make[c] EXCEPT !.pc = l]
<1>1. make' = [make EXCEPT ![c] = r]
  BY DEF Step
<1> HIDE DEF r
<1> QED
  BY <1>1, GoesOn DEF r

\* What a step does to the directory of a version.
Dir(v, dir, deps) ==
  /\ disk' \in [Versions -> DiskType] /\ \A w \in Versions : w # v => disk'[w] = disk[w]
  /\ disk'[v].dir = dir /\ disk'[v].deps = deps

\* A step that writes one directory, or none.
LEMMA DirSet ==
  ASSUME CodeTypes, NEW v \in Versions, NEW r \in DiskType, disk' = [disk EXCEPT ![v] = r]
  PROVE  Dir(v, r.dir, r.deps)
BY DEF CodeTypes, Dir

\* A step that leaves the disk alone is one of those, whatever the directory.
LEMMA DirSame ==
  ASSUME CodeTypes, NEW v \in Versions, UNCHANGED disk
  PROVE  Dir(v, disk[v].dir, disk[v].deps)
BY DEF CodeTypes, Dir

\* Types are kept by a create that goes on.
LEMMA GoesTypes ==
  ASSUME CodeTypes, NEW c \in Creates, NEW l, NEW art, NEW cached, NEW fresh, make[c].pc # "new", l # "new",
         l \in Using \cup {"live"} => art \in Creates /\ make[art].ver = make[c].ver,
         Goes(c, l, art, cached, fresh),
         codes' \in [Versions -> Creates \cup {0}], disk' \in [Versions -> DiskType],
         \A v \in Versions : codes'[v] # 0 => make[codes'[v]].ver = v,
         depOf' \in [Creates -> BOOLEAN], wlock' \in [Versions -> Creates \cup {0}],
         UNCHANGED <<rebuild, overlap>>
  PROVE  CodeTypes'
<1>2. \A d \in Creates : make'[d].ver = make[d].ver /\ make'[d].deps = make[d].deps
  BY DEF Goes
<1>1. \A d \in Creates : make'[d].ver = 0 <=> make'[d].pc = "new"
  BY DEF CodeTypes, Goes
<1>3. \A d, e \in Creates : make'[d].ver = make'[e].ver => make'[d].deps = make'[e].deps
  BY <1>2 DEF CodeTypes
<1>4. \A d \in Creates : make'[d].pc \in Using \cup {"live"}
                          => make'[d].art \in Creates /\ make'[make'[d].art].ver = make'[d].ver
  <2> SUFFICES ASSUME NEW d \in Creates, make'[d].pc \in Using \cup {"live"}
               PROVE  make'[d].art \in Creates /\ make'[make'[d].art].ver = make'[d].ver
    OBVIOUS
  <2>1. make'[d].art \in Creates /\ make[make'[d].art].ver = make[d].ver
    BY DEF CodeTypes, Goes
  <2> QED
    BY <2>1, <1>2
<1>5. \A v \in Versions : codes'[v] # 0 => make'[codes'[v]].ver = v
  BY <1>2
<1> QED
  BY <1>1, <1>3, <1>4, <1>5 DEF CodeTypes, Goes

\* What is registered is an artifact of the version.
LEMMA OfVersion ==
  ASSUME CodeTypes, NEW v \in Versions, codes[v] # 0
  PROVE  codes[v] \in Creates /\ make[codes[v]].ver = v
BY DEF CodeTypes

\* A step changes nothing of the other versions.
LEMMA OtherVersions ==
  ASSUME CodeTypes, UsedComplete, RestComplete, NEW c \in Creates, NEW l, NEW art, NEW cached, NEW fresh,
         Goes(c, l, art, cached, fresh), Ver(c) \in Versions, NEW dir, NEW deps, Dir(Ver(c), dir, deps),
         \A v \in Versions : v # Ver(c) => codes'[v] = codes[v],
         \A a \in Creates : make[a].ver # Ver(c) => depOf'[a] = depOf[a]
  PROVE  /\ \A d \in Creates : make[d].ver # make[c].ver => UsedOk(d)'
         /\ \A v \in Versions : v # Ver(c) => RestOk(v)'
<1> USE DEF Ver
<1>1. ASSUME NEW d \in Creates, make[d].ver # make[c].ver PROVE UsedOk(d)'
  <2>1. make'[d] = make[d] /\ UsedOk(d)
    BY <1>1 DEF Goes, UsedComplete
  <2>2. CASE make[d].pc \notin {"install", "load", "repair", "reload", "executor", "live"} \cup Using
    BY <2>1, <2>2 DEF UsedOk
  <2>3. CASE make[d].pc \in {"install", "load", "repair", "reload", "executor", "live"} \cup Using
    <3>1. make[d].ver \in Versions /\ make[d].art \in Creates /\ make[make[d].art].ver = make[d].ver
      BY <2>3 DEF CodeTypes, MakeType, Using
    <3>2. disk'[make[d].ver] = disk[make[d].ver] /\ depOf'[make[d].art] = depOf[make[d].art]
      BY <1>1, <3>1 DEF Dir
    <3> QED
      BY <2>1, <3>2 DEF UsedOk, Complete, Imports
  <2> QED
    BY <2>2, <2>3
<1>2. ASSUME NEW v \in Versions, v # Ver(c) PROVE RestOk(v)'
  <2> SUFFICES ASSUME codes'[v] # 0, \A d \in Creates : make'[d].ver = v => ~Bringing(d)'
               PROVE  disk'[v].dir /\ Imports(codes[v])' /\ depOf'[codes'[v]] = (make'[codes'[v]].deps # "none")
    BY DEF RestOk
  <2>1. codes'[v] = codes[v] /\ disk'[v] = disk[v]
    BY <1>2 DEF Dir
  <2>2. \A d \in Creates : make[d].ver = v => ~Bringing(d)
    <3> SUFFICES ASSUME NEW d \in Creates, make[d].ver = v PROVE ~Bringing(d)
      OBVIOUS
    <3>1. make'[d] = make[d]
      BY <1>2 DEF Goes
    <3> QED
      BY <3>1 DEF Bringing
  <2>3. codes[v] \in Creates /\ make[codes[v]].ver = v
    BY <2>1 DEF CodeTypes
  <2>4. disk[v].dir /\ Imports(codes[v]) /\ depOf[codes[v]] = (make[codes[v]].deps # "none")
    BY <2>1, <2>2 DEF RestComplete, RestOk
  <2>5. make'[codes[v]] = make[codes[v]] /\ depOf'[codes[v]] = depOf[codes[v]]
    BY <1>2, <2>3 DEF Goes
  <2> QED
    BY <2>1, <2>3, <2>4, <2>5 DEF Imports
<1> QED
  BY <1>1, <1>2

\* A create finds its version on the node.
LEMMA HitKeeps ==
  ASSUME CodeInv, NEW c \in Creates, At(c, "lookup"), codes[Ver(c)] # 0,
         Goes(c, "install", codes[Ver(c)], TRUE, make[c].fresh),
         Dir(Ver(c), disk[Ver(c)].dir, disk[Ver(c)].deps), UNCHANGED <<codes, depOf, wlock, rebuild, overlap>>
  PROVE  CodeInv'
<1> USE NodeCodeAssumption DEF At, Ver, Making, Using
<1>t. CodeTypes /\ Locked /\ make \in [Creates -> MakeType]
  BY DEF CodeInv, CodeTypes
<1>v. Ver(c) \in Versions /\ Ver(c) # 0
  BY <1>t DEF CodeTypes, MakeType
<1>d. make' \in [Creates -> MakeType] /\ \A d \in Creates : make'[d].ver = make[d].ver /\ make'[d].deps = make[d].deps
  BY DEF Goes
<1>e. /\ \A d \in Creates : d # c => make'[d] = make[d]
      /\ make'[c].pc = "install" /\ make'[c].art = codes[Ver(c)] /\ make'[c].cached = TRUE /\ make'[c].fresh = make[c].fresh
  BY DEF Goes
<1>f. \A d \in Creates : make[d] \in MakeType /\ make'[d] \in MakeType /\ (make[d].ver \in Versions \/ make[d].pc = "new")
  BY <1>d, <1>t DEF CodeTypes, MakeType
<1>1. CodeTypes'
  <2>1. /\ codes' \in [Versions -> Creates \cup {0}] /\ disk' \in [Versions -> DiskType]
        /\ depOf' \in [Creates -> BOOLEAN] /\ wlock' \in [Versions -> Creates \cup {0}]
    BY <1>t, <1>v DEF CodeTypes, Dir
  <2>2. "install" \in Using \cup {"live"} => codes[Ver(c)] \in Creates /\ make[codes[Ver(c)]].ver = make[c].ver
    BY ZenonT(60), <1>t, <1>v DEF CodeTypes
  <2>3. \A v \in Versions : codes'[v] # 0 => make[codes'[v]].ver = v
    BY <1>t, <1>v DEF CodeTypes
  <2>4. make[c].pc # "new" /\ "install" # "new"
    BY <1>t
  <2> QED
    BY <2>1, <2>2, <2>3, <2>4, <1>t, GoesTypes
<1>2. Locked'
  BY <1>t, <1>v DEF CodeTypes, Locked, Goes
<1>3. SUFFICES ASSUME ~overlap' PROVE OneAtATime' /\ Registered' /\ BringsFirst' /\ UsedComplete' /\ RestComplete'
  BY <1>1, <1>2 DEF CodeInv, CodeSound
<1>4. OneAtATime /\ Registered /\ BringsFirst /\ UsedComplete /\ RestComplete
  BY <1>3 DEF CodeInv, CodeSound
<1>5. OneAtATime'
  BY <1>4 DEF OneAtATime, Goes
<1>6. Registered'
  BY <1>t, <1>v, <1>4 DEF CodeTypes, OneAtATime, Registered, BringsFirst, Goes, Locked, Bringing
<1>b. UsedOk(c)
  BY <1>4 DEF UsedComplete
<1>a. make[c].pc \in Using => make[c].art \in Creates /\ depOf[make[c].art] \in BOOLEAN
  BY <1>t DEF CodeTypes
<1>7. BringsFirst'
  <2> SUFFICES ASSUME NEW d \in Creates, NEW e \in Creates
               PROVE  /\ make'[d].pc \in {"lookup", "files", "register", "meta", "repair", "reload", "rmtree"}
                           => ~make'[d].cached
                      /\ make'[d].pc = "lookup" => ~make'[d].fresh
                      /\ Bringing(d)' /\ make'[d].pc \in Using => make'[d].art = d
                      /\ Bringing(d)' /\ make'[e].ver = make'[d].ver => make'[e].pc # "live"
    BY DEF BringsFirst
  <2>1. CASE d = c
    BY <2>1, <1>t, <1>v, <1>a, <1>b, <1>d, <1>e, <1>4 DEF CodeTypes, Registered, BringsFirst, UsedOk, Complete, Bringing
  <2>2. CASE d # c
    BY <2>2, <1>t, <1>v, <1>d, <1>e, <1>4 DEF CodeTypes, OneAtATime, Registered, BringsFirst, Bringing
  <2> QED
    BY <2>1, <2>2
<1>c. /\ \A d \in Creates : make[d].ver # make[c].ver => UsedOk(d)'
      /\ \A v \in Versions : v # Ver(c) => RestOk(v)'
  <2>1. /\ \A v \in Versions : v # Ver(c) => codes'[v] = codes[v]
        /\ \A x \in Creates : make[x].ver # Ver(c) => depOf'[x] = depOf[x]
    BY <1>t, <1>v DEF CodeTypes
  <2> QED
    BY <2>1, <1>t, <1>v, <1>4, OtherVersions
<1>8. UsedComplete'
  <2>1. UsedOk(c)'
    <3>1. \A d \in Creates : Ver(d) = Ver(c) => ~Bringing(d)
      BY <1>4 DEF OneAtATime, Bringing
    <3>2. RestOk(Ver(c))
      BY <1>v, <1>4 DEF RestComplete
    <3>3. disk[Ver(c)].dir /\ Imports(codes[Ver(c)])
          /\ depOf[codes[Ver(c)]] = (make[codes[Ver(c)]].deps # "none")
      BY <3>1, <3>2 DEF RestOk
    <3>4. make[codes[Ver(c)]].deps = make[c].deps /\ make[codes[Ver(c)]].ver = make[c].ver
      <4>1. codes[Ver(c)] \in Creates /\ make[codes[Ver(c)]].ver = make[c].ver
        BY ZenonT(60), <1>v, <1>t DEF CodeTypes
      <4> QED
        BY <4>1, <1>t DEF CodeTypes
    <3>5. ~make[c].fresh
      BY <1>4 DEF BringsFirst
    <3> QED
      BY <3>3, <3>4, <3>5, <1>v, <1>d, <1>e DEF UsedOk, Complete, Imports, Dir
  <2>2. ASSUME NEW d \in Creates, d # c /\ make[d].ver = make[c].ver PROVE UsedOk(d)'
    <3>1. UsedOk(d) /\ make'[d] = make[d]
      BY <2>2, <1>e, <1>4 DEF UsedComplete
    <3>2. make[d].pc \notin Making
      BY <2>2, <1>4 DEF OneAtATime
    <3>3. make[d].pc = "live" => Complete(d) /\ make[d].art \in Creates /\ ~Bringing(c) /\ depOf[make[d].art] \in BOOLEAN
                                 /\ codes[Ver(c)] = make[d].art
      <4> SUFFICES ASSUME make[d].pc = "live"
                   PROVE  Complete(d) /\ make[d].art \in Creates /\ ~Bringing(c) /\ depOf[make[d].art] \in BOOLEAN
                          /\ codes[Ver(c)] = make[d].art
        OBVIOUS
      <4>1. Complete(d)
        BY <3>1 DEF UsedOk
      <4>2. make[d].art \in Creates /\ depOf[make[d].art] \in BOOLEAN
        BY <1>t DEF CodeTypes
      <4>3. ~Bringing(c)
        BY <2>2, <1>4 DEF BringsFirst
      <4>4. codes[Ver(c)] = make[d].art
        BY <2>2, <1>4 DEF Registered
      <4> QED
        BY <4>1, <4>2, <4>3, <4>4
    <3>4. make[d].pc = "live" => Complete(d)'
      BY <2>2, <3>1, <3>3, <1>t, <1>v, <1>a, <1>b, <1>d, <1>f, <1>4 DEF UsedOk, Dir, Bringing, BringsFirst, Complete, Imports, Registered, DiskType
    <3> QED
      BY <3>1, <3>2, <3>4 DEF UsedOk
  <2>3. ASSUME NEW d \in Creates PROVE UsedOk(d)'
    BY <2>1, <2>2, <1>c
  <2> QED
    BY <2>3 DEF UsedComplete
<1>9. RestComplete'
  <2>0. PICK v \in Versions : v = Ver(c)
    BY <1>v
  <2>1. RestOk(v)'
    <3> SUFFICES ASSUME codes'[v] # 0, \A d \in Creates : make'[d].ver = v => ~Bringing(d)'
                 PROVE  /\ disk'[v].dir /\ Imports(codes[v])'
                        /\ depOf'[codes'[v]] = (make'[codes'[v]].deps # "none")
      BY DEF RestOk
    <3>1. ~Bringing(c)'
      BY <1>d, <2>0
    <3>2. codes[Ver(c)] # 0 => codes[Ver(c)] \in Creates /\ make[codes[Ver(c)]].ver = make[c].ver
                               /\ make[codes[Ver(c)]].deps = make[c].deps /\ depOf[codes[Ver(c)]] \in BOOLEAN
      <4>1. codes[Ver(c)] # 0 => codes[Ver(c)] \in Creates /\ make[codes[Ver(c)]].ver = make[c].ver
        BY <1>t, <1>v, OfVersion
      <4> QED
        BY <4>1, <1>t DEF CodeTypes
    <3>4. make[c].pc \in Using \cup {"live"} => codes[Ver(c)] = make[c].art
      BY <1>4 DEF Registered
    <3>5. (make[c].pc \in Using /\ make[c].cached) \/ make[c].pc \in {"executor", "live"} => Complete(c)
      BY <1>b DEF UsedOk
    <3>6. make[c].pc = "live" => ~Bringing(c)
      BY DEF Bringing
    <3>0. \A d \in Creates : make'[d].ver = v => ~Bringing(d)'
      OBVIOUS
    <3>3. ~Bringing(c) /\ codes[Ver(c)] # 0 => disk[Ver(c)].dir /\ Imports(codes[Ver(c)])
                                             /\ depOf[codes[Ver(c)]] = (make[c].deps # "none")
      <4>1. RestOk(Ver(c))
        BY <1>4, <1>v DEF RestComplete
      <4>2. \A d \in Creates : d # c /\ make[d].ver = Ver(c) => ~Bringing(d)
        <5> SUFFICES ASSUME NEW d \in Creates, d # c, make[d].ver = Ver(c) PROVE ~Bringing(d)
          OBVIOUS
        <5>1. make'[d] = make[d] /\ ~Bringing(d)'
          BY <1>d, <1>e, <2>0, <3>0
        <5> QED
          BY <5>1 DEF Bringing
      <4> QED
        BY <4>1, <4>2, <3>2 DEF RestOk
    <3> QED
      BY ZenonT(60), <2>0, <3>1, <3>2, <3>3, <3>4, <3>5, <3>6, <1>t, <1>v, <1>a, <1>b, <1>d, <1>e, <1>4 DEF Registered, BringsFirst, UsedOk, Dir, Bringing,
         Complete, Imports, CodeTypes
  <2> QED
    BY <2>0, <2>1, <1>c DEF RestComplete
<1> QED
  BY <1>5, <1>6, <1>7, <1>8, <1>9

\* A create does not find it.
LEMMA MissKeeps ==
  ASSUME CodeInv, NEW c \in Creates, At(c, "lookup"), codes[Ver(c)] = 0, wlock[Ver(c)] = 0,
         Goes(c, "files", make[c].art, make[c].cached, make[c].fresh),
         wlock' = [wlock EXCEPT ![Ver(c)] = c], Dir(Ver(c), disk[Ver(c)].dir, disk[Ver(c)].deps), UNCHANGED <<codes, depOf, rebuild, overlap>>
  PROVE  CodeInv'
<1> USE NodeCodeAssumption DEF At, Ver, Making, Using
<1>t. CodeTypes /\ Locked /\ make \in [Creates -> MakeType]
  BY DEF CodeInv, CodeTypes
<1>v. Ver(c) \in Versions /\ Ver(c) # 0
  BY <1>t DEF CodeTypes, MakeType
<1>d. make' \in [Creates -> MakeType] /\ \A d \in Creates : make'[d].ver = make[d].ver /\ make'[d].deps = make[d].deps
  BY DEF Goes
<1>e. /\ \A d \in Creates : d # c => make'[d] = make[d]
      /\ make'[c].pc = "files" /\ make'[c].art = make[c].art /\ make'[c].cached = make[c].cached /\ make'[c].fresh = make[c].fresh
  BY DEF Goes
<1>f. \A d \in Creates : make[d] \in MakeType /\ make'[d] \in MakeType /\ (make[d].ver \in Versions \/ make[d].pc = "new")
  BY <1>d, <1>t DEF CodeTypes, MakeType
<1>1. CodeTypes'
  <2>1. /\ codes' \in [Versions -> Creates \cup {0}] /\ disk' \in [Versions -> DiskType]
        /\ depOf' \in [Creates -> BOOLEAN] /\ wlock' \in [Versions -> Creates \cup {0}]
    BY <1>t, <1>v DEF CodeTypes, Dir
  <2>2. "files" \in Using \cup {"live"} => make[c].art \in Creates /\ make[make[c].art].ver = make[c].ver
    BY <1>t, <1>v DEF CodeTypes
  <2>3. \A v \in Versions : codes'[v] # 0 => make[codes'[v]].ver = v
    BY <1>t, <1>v DEF CodeTypes
  <2>4. make[c].pc # "new" /\ "files" # "new"
    BY <1>t
  <2> QED
    BY <2>1, <2>2, <2>3, <2>4, <1>t, GoesTypes
<1>2. Locked'
  BY <1>t, <1>v DEF CodeTypes, Locked, Goes
<1>3. SUFFICES ASSUME ~overlap' PROVE OneAtATime' /\ Registered' /\ BringsFirst' /\ UsedComplete' /\ RestComplete'
  BY <1>1, <1>2 DEF CodeInv, CodeSound
<1>4. OneAtATime /\ Registered /\ BringsFirst /\ UsedComplete /\ RestComplete
  BY <1>3 DEF CodeInv, CodeSound
<1>5. OneAtATime'
  BY <1>4 DEF OneAtATime, Goes
<1>6. Registered'
  BY <1>t, <1>v, <1>4 DEF CodeTypes, OneAtATime, Registered, BringsFirst, Goes, Locked, Bringing
<1>b. UsedOk(c)
  BY <1>4 DEF UsedComplete
<1>a. make[c].pc \in Using => make[c].art \in Creates /\ depOf[make[c].art] \in BOOLEAN
  BY <1>t DEF CodeTypes
<1>7. BringsFirst'
  <2> SUFFICES ASSUME NEW d \in Creates, NEW e \in Creates
               PROVE  /\ make'[d].pc \in {"lookup", "files", "register", "meta", "repair", "reload", "rmtree"}
                           => ~make'[d].cached
                      /\ make'[d].pc = "lookup" => ~make'[d].fresh
                      /\ Bringing(d)' /\ make'[d].pc \in Using => make'[d].art = d
                      /\ Bringing(d)' /\ make'[e].ver = make'[d].ver => make'[e].pc # "live"
    BY DEF BringsFirst
  <2>1. CASE d = c
    BY <2>1, <1>t, <1>v, <1>a, <1>b, <1>d, <1>e, <1>4 DEF CodeTypes, Registered, BringsFirst, UsedOk, Complete, Bringing
  <2>2. CASE d # c
    BY <2>2, <1>t, <1>v, <1>d, <1>e, <1>4 DEF CodeTypes, OneAtATime, Registered, BringsFirst, Bringing
  <2> QED
    BY <2>1, <2>2
<1>c. /\ \A d \in Creates : make[d].ver # make[c].ver => UsedOk(d)'
      /\ \A v \in Versions : v # Ver(c) => RestOk(v)'
  <2>1. /\ \A v \in Versions : v # Ver(c) => codes'[v] = codes[v]
        /\ \A x \in Creates : make[x].ver # Ver(c) => depOf'[x] = depOf[x]
    BY <1>t, <1>v DEF CodeTypes
  <2> QED
    BY <2>1, <1>t, <1>v, <1>4, OtherVersions
<1>8. UsedComplete'
  <2>1. UsedOk(c)'
    BY <1>t, <1>v, <1>a, <1>b, <1>d, <1>e, <1>f, <1>4 DEF CodeTypes, Registered, BringsFirst, UsedOk, RestComplete, RestOk, Dir, Bringing,
       Complete, Imports, DiskType, Deps, OneAtATime
  <2>2. ASSUME NEW d \in Creates, d # c /\ make[d].ver = make[c].ver PROVE UsedOk(d)'
    <3>1. UsedOk(d) /\ make'[d] = make[d]
      BY <2>2, <1>e, <1>4 DEF UsedComplete
    <3>2. make[d].pc \notin Making
      BY <2>2, <1>4 DEF OneAtATime
    <3>3. make[d].pc = "live" => Complete(d) /\ make[d].art \in Creates /\ ~Bringing(c) /\ depOf[make[d].art] \in BOOLEAN
                                 /\ codes[Ver(c)] = make[d].art
      <4> SUFFICES ASSUME make[d].pc = "live"
                   PROVE  Complete(d) /\ make[d].art \in Creates /\ ~Bringing(c) /\ depOf[make[d].art] \in BOOLEAN
                          /\ codes[Ver(c)] = make[d].art
        OBVIOUS
      <4>1. Complete(d)
        BY <3>1 DEF UsedOk
      <4>2. make[d].art \in Creates /\ depOf[make[d].art] \in BOOLEAN
        BY <1>t DEF CodeTypes
      <4>3. ~Bringing(c)
        BY <2>2, <1>4 DEF BringsFirst
      <4>4. codes[Ver(c)] = make[d].art
        BY <2>2, <1>4 DEF Registered
      <4> QED
        BY <4>1, <4>2, <4>3, <4>4
    <3>4. make[d].pc = "live" => Complete(d)'
      BY <2>2, <3>1, <3>3, <1>t, <1>v, <1>a, <1>b, <1>d, <1>f, <1>4 DEF UsedOk, Dir, Bringing, BringsFirst, Complete, Imports, Registered, DiskType
    <3> QED
      BY <3>1, <3>2, <3>4 DEF UsedOk
  <2>3. ASSUME NEW d \in Creates PROVE UsedOk(d)'
    BY <2>1, <2>2, <1>c
  <2> QED
    BY <2>3 DEF UsedComplete
<1>9. RestComplete'
  <2>0. PICK v \in Versions : v = Ver(c)
    BY <1>v
  <2>1. RestOk(v)'
    <3> SUFFICES ASSUME codes'[v] # 0, \A d \in Creates : make'[d].ver = v => ~Bringing(d)'
                 PROVE  /\ disk'[v].dir /\ Imports(codes[v])'
                        /\ depOf'[codes'[v]] = (make'[codes'[v]].deps # "none")
      BY DEF RestOk
    <3>1. ~Bringing(c)'
      BY <1>d, <2>0
    <3>2. codes[Ver(c)] # 0 => codes[Ver(c)] \in Creates /\ make[codes[Ver(c)]].ver = make[c].ver
                               /\ make[codes[Ver(c)]].deps = make[c].deps /\ depOf[codes[Ver(c)]] \in BOOLEAN
      <4>1. codes[Ver(c)] # 0 => codes[Ver(c)] \in Creates /\ make[codes[Ver(c)]].ver = make[c].ver
        BY <1>t, <1>v, OfVersion
      <4> QED
        BY <4>1, <1>t DEF CodeTypes
    <3>4. make[c].pc \in Using \cup {"live"} => codes[Ver(c)] = make[c].art
      BY <1>4 DEF Registered
    <3>5. (make[c].pc \in Using /\ make[c].cached) \/ make[c].pc \in {"executor", "live"} => Complete(c)
      BY <1>b DEF UsedOk
    <3>6. make[c].pc = "live" => ~Bringing(c)
      BY DEF Bringing
    <3>0. \A d \in Creates : make'[d].ver = v => ~Bringing(d)'
      OBVIOUS
    <3>3. ~Bringing(c) /\ codes[Ver(c)] # 0 => disk[Ver(c)].dir /\ Imports(codes[Ver(c)])
                                             /\ depOf[codes[Ver(c)]] = (make[c].deps # "none")
      <4>1. RestOk(Ver(c))
        BY <1>4, <1>v DEF RestComplete
      <4>2. \A d \in Creates : d # c /\ make[d].ver = Ver(c) => ~Bringing(d)
        <5> SUFFICES ASSUME NEW d \in Creates, d # c, make[d].ver = Ver(c) PROVE ~Bringing(d)
          OBVIOUS
        <5>1. make'[d] = make[d] /\ ~Bringing(d)'
          BY <1>d, <1>e, <2>0, <3>0
        <5> QED
          BY <5>1 DEF Bringing
      <4> QED
        BY <4>1, <4>2, <3>2 DEF RestOk
    <3> QED
      BY <2>0, <3>1, <3>2, <3>3, <3>4, <3>5, <3>6, <1>t, <1>v, <1>a, <1>b, <1>d, <1>e, <1>4 DEF Registered, BringsFirst, UsedOk, Dir, Bringing,
         Complete, Imports, CodeTypes
  <2> QED
    BY <2>0, <2>1, <1>c DEF RestComplete
<1> QED
  BY <1>5, <1>6, <1>7, <1>8, <1>9

\* The package is written.
LEMMA FilesKeeps ==
  ASSUME CodeInv, NEW c \in Creates, At(c, "files"),
         Goes(c, "register", make[c].art, make[c].cached, make[c].fresh),
         Dir(Ver(c), TRUE, disk[Ver(c)].deps), UNCHANGED <<codes, depOf, wlock, rebuild, overlap>>
  PROVE  CodeInv'
<1> USE NodeCodeAssumption DEF At, Ver, Making, Using
<1>t. CodeTypes /\ Locked /\ make \in [Creates -> MakeType]
  BY DEF CodeInv, CodeTypes
<1>v. Ver(c) \in Versions /\ Ver(c) # 0
  BY <1>t DEF CodeTypes, MakeType
<1>d. make' \in [Creates -> MakeType] /\ \A d \in Creates : make'[d].ver = make[d].ver /\ make'[d].deps = make[d].deps
  BY DEF Goes
<1>e. /\ \A d \in Creates : d # c => make'[d] = make[d]
      /\ make'[c].pc = "register" /\ make'[c].art = make[c].art /\ make'[c].cached = make[c].cached /\ make'[c].fresh = make[c].fresh
  BY DEF Goes
<1>f. \A d \in Creates : make[d] \in MakeType /\ make'[d] \in MakeType /\ (make[d].ver \in Versions \/ make[d].pc = "new")
  BY <1>d, <1>t DEF CodeTypes, MakeType
<1>1. CodeTypes'
  <2>1. /\ codes' \in [Versions -> Creates \cup {0}] /\ disk' \in [Versions -> DiskType]
        /\ depOf' \in [Creates -> BOOLEAN] /\ wlock' \in [Versions -> Creates \cup {0}]
    BY <1>t, <1>v DEF CodeTypes, Dir
  <2>2. "register" \in Using \cup {"live"} => make[c].art \in Creates /\ make[make[c].art].ver = make[c].ver
    BY <1>t, <1>v DEF CodeTypes
  <2>3. \A v \in Versions : codes'[v] # 0 => make[codes'[v]].ver = v
    BY <1>t, <1>v DEF CodeTypes
  <2>4. make[c].pc # "new" /\ "register" # "new"
    BY <1>t
  <2> QED
    BY <2>1, <2>2, <2>3, <2>4, <1>t, GoesTypes
<1>2. Locked'
  BY <1>t, <1>v DEF CodeTypes, Locked, Goes
<1>3. SUFFICES ASSUME ~overlap' PROVE OneAtATime' /\ Registered' /\ BringsFirst' /\ UsedComplete' /\ RestComplete'
  BY <1>1, <1>2 DEF CodeInv, CodeSound
<1>4. OneAtATime /\ Registered /\ BringsFirst /\ UsedComplete /\ RestComplete
  BY <1>3 DEF CodeInv, CodeSound
<1>5. OneAtATime'
  BY <1>4 DEF OneAtATime, Goes
<1>6. Registered'
  BY <1>t, <1>v, <1>4 DEF CodeTypes, OneAtATime, Registered, BringsFirst, Goes, Locked, Bringing
<1>b. UsedOk(c)
  BY <1>4 DEF UsedComplete
<1>a. make[c].pc \in Using => make[c].art \in Creates /\ depOf[make[c].art] \in BOOLEAN
  BY <1>t DEF CodeTypes
<1>7. BringsFirst'
  <2> SUFFICES ASSUME NEW d \in Creates, NEW e \in Creates
               PROVE  /\ make'[d].pc \in {"lookup", "files", "register", "meta", "repair", "reload", "rmtree"}
                           => ~make'[d].cached
                      /\ make'[d].pc = "lookup" => ~make'[d].fresh
                      /\ Bringing(d)' /\ make'[d].pc \in Using => make'[d].art = d
                      /\ Bringing(d)' /\ make'[e].ver = make'[d].ver => make'[e].pc # "live"
    BY DEF BringsFirst
  <2>1. CASE d = c
    BY <2>1, <1>t, <1>v, <1>a, <1>b, <1>d, <1>e, <1>4 DEF CodeTypes, Registered, BringsFirst, UsedOk, Complete, Bringing
  <2>2. CASE d # c
    BY <2>2, <1>t, <1>v, <1>d, <1>e, <1>4 DEF CodeTypes, OneAtATime, Registered, BringsFirst, Bringing
  <2> QED
    BY <2>1, <2>2
<1>c. /\ \A d \in Creates : make[d].ver # make[c].ver => UsedOk(d)'
      /\ \A v \in Versions : v # Ver(c) => RestOk(v)'
  <2>1. /\ \A v \in Versions : v # Ver(c) => codes'[v] = codes[v]
        /\ \A x \in Creates : make[x].ver # Ver(c) => depOf'[x] = depOf[x]
    BY <1>t, <1>v DEF CodeTypes
  <2> QED
    BY <2>1, <1>t, <1>v, <1>4, OtherVersions
<1>8. UsedComplete'
  <2>1. UsedOk(c)'
    BY <1>t, <1>v, <1>a, <1>b, <1>d, <1>e, <1>f, <1>4 DEF CodeTypes, Registered, BringsFirst, UsedOk, RestComplete, RestOk, Dir, Bringing,
       Complete, Imports, DiskType, Deps, OneAtATime
  <2>2. ASSUME NEW d \in Creates, d # c /\ make[d].ver = make[c].ver PROVE UsedOk(d)'
    <3>1. UsedOk(d) /\ make'[d] = make[d]
      BY <2>2, <1>e, <1>4 DEF UsedComplete
    <3>2. make[d].pc \notin Making
      BY <2>2, <1>4 DEF OneAtATime
    <3>3. make[d].pc = "live" => Complete(d) /\ make[d].art \in Creates /\ ~Bringing(c) /\ depOf[make[d].art] \in BOOLEAN
                                 /\ codes[Ver(c)] = make[d].art
      <4> SUFFICES ASSUME make[d].pc = "live"
                   PROVE  Complete(d) /\ make[d].art \in Creates /\ ~Bringing(c) /\ depOf[make[d].art] \in BOOLEAN
                          /\ codes[Ver(c)] = make[d].art
        OBVIOUS
      <4>1. Complete(d)
        BY <3>1 DEF UsedOk
      <4>2. make[d].art \in Creates /\ depOf[make[d].art] \in BOOLEAN
        BY <1>t DEF CodeTypes
      <4>3. ~Bringing(c)
        BY <2>2, <1>4 DEF BringsFirst
      <4>4. codes[Ver(c)] = make[d].art
        BY <2>2, <1>4 DEF Registered
      <4> QED
        BY <4>1, <4>2, <4>3, <4>4
    <3>4. make[d].pc = "live" => Complete(d)'
      BY <2>2, <3>1, <3>3, <1>t, <1>v, <1>a, <1>b, <1>d, <1>f, <1>4 DEF UsedOk, Dir, Bringing, BringsFirst, Complete, Imports, Registered, DiskType
    <3> QED
      BY <3>1, <3>2, <3>4 DEF UsedOk
  <2>3. ASSUME NEW d \in Creates PROVE UsedOk(d)'
    BY <2>1, <2>2, <1>c
  <2> QED
    BY <2>3 DEF UsedComplete
<1>9. RestComplete'
  <2>0. PICK v \in Versions : v = Ver(c)
    BY <1>v
  <2>1. RestOk(v)'
    <3> SUFFICES ASSUME codes'[v] # 0, \A d \in Creates : make'[d].ver = v => ~Bringing(d)'
                 PROVE  /\ disk'[v].dir /\ Imports(codes[v])'
                        /\ depOf'[codes'[v]] = (make'[codes'[v]].deps # "none")
      BY DEF RestOk
    <3>1. ~Bringing(c)'
      BY <1>d, <2>0
    <3>2. codes[Ver(c)] # 0 => codes[Ver(c)] \in Creates /\ make[codes[Ver(c)]].ver = make[c].ver
                               /\ make[codes[Ver(c)]].deps = make[c].deps /\ depOf[codes[Ver(c)]] \in BOOLEAN
      <4>1. codes[Ver(c)] # 0 => codes[Ver(c)] \in Creates /\ make[codes[Ver(c)]].ver = make[c].ver
        BY <1>t, <1>v, OfVersion
      <4> QED
        BY <4>1, <1>t DEF CodeTypes
    <3>4. make[c].pc \in Using \cup {"live"} => codes[Ver(c)] = make[c].art
      BY <1>4 DEF Registered
    <3>5. (make[c].pc \in Using /\ make[c].cached) \/ make[c].pc \in {"executor", "live"} => Complete(c)
      BY <1>b DEF UsedOk
    <3>6. make[c].pc = "live" => ~Bringing(c)
      BY DEF Bringing
    <3>0. \A d \in Creates : make'[d].ver = v => ~Bringing(d)'
      OBVIOUS
    <3>3. ~Bringing(c) /\ codes[Ver(c)] # 0 => disk[Ver(c)].dir /\ Imports(codes[Ver(c)])
                                             /\ depOf[codes[Ver(c)]] = (make[c].deps # "none")
      <4>1. RestOk(Ver(c))
        BY <1>4, <1>v DEF RestComplete
      <4>2. \A d \in Creates : d # c /\ make[d].ver = Ver(c) => ~Bringing(d)
        <5> SUFFICES ASSUME NEW d \in Creates, d # c, make[d].ver = Ver(c) PROVE ~Bringing(d)
          OBVIOUS
        <5>1. make'[d] = make[d] /\ ~Bringing(d)'
          BY <1>d, <1>e, <2>0, <3>0
        <5> QED
          BY <5>1 DEF Bringing
      <4> QED
        BY <4>1, <4>2, <3>2 DEF RestOk
    <3> QED
      BY <2>0, <3>1, <3>2, <3>3, <3>4, <3>5, <3>6, <1>t, <1>v, <1>a, <1>b, <1>d, <1>e, <1>4 DEF Registered, BringsFirst, UsedOk, Dir, Bringing,
         Complete, Imports, CodeTypes
  <2> QED
    BY <2>0, <2>1, <1>c DEF RestComplete
<1> QED
  BY <1>5, <1>6, <1>7, <1>8, <1>9

\* It cannot be.
LEMMA NoFilesKeeps ==
  ASSUME CodeInv, NEW c \in Creates, At(c, "files"),
         Goes(c, "failed", make[c].art, make[c].cached, make[c].fresh),
         Dir(Ver(c), TRUE, disk[Ver(c)].deps), wlock' = [wlock EXCEPT ![Ver(c)] = 0],
         UNCHANGED <<codes, depOf, rebuild, overlap>>
  PROVE  CodeInv'
<1> USE NodeCodeAssumption DEF At, Ver, Making, Using
<1>t. CodeTypes /\ Locked /\ make \in [Creates -> MakeType]
  BY DEF CodeInv, CodeTypes
<1>v. Ver(c) \in Versions /\ Ver(c) # 0
  BY <1>t DEF CodeTypes, MakeType
<1>d. make' \in [Creates -> MakeType] /\ \A d \in Creates : make'[d].ver = make[d].ver /\ make'[d].deps = make[d].deps
  BY DEF Goes
<1>e. /\ \A d \in Creates : d # c => make'[d] = make[d]
      /\ make'[c].pc = "failed" /\ make'[c].art = make[c].art /\ make'[c].cached = make[c].cached /\ make'[c].fresh = make[c].fresh
  BY DEF Goes
<1>f. \A d \in Creates : make[d] \in MakeType /\ make'[d] \in MakeType /\ (make[d].ver \in Versions \/ make[d].pc = "new")
  BY <1>d, <1>t DEF CodeTypes, MakeType
<1>1. CodeTypes'
  <2>1. /\ codes' \in [Versions -> Creates \cup {0}] /\ disk' \in [Versions -> DiskType]
        /\ depOf' \in [Creates -> BOOLEAN] /\ wlock' \in [Versions -> Creates \cup {0}]
    BY <1>t, <1>v DEF CodeTypes, Dir
  <2>2. "failed" \in Using \cup {"live"} => make[c].art \in Creates /\ make[make[c].art].ver = make[c].ver
    BY <1>t, <1>v DEF CodeTypes
  <2>3. \A v \in Versions : codes'[v] # 0 => make[codes'[v]].ver = v
    BY <1>t, <1>v DEF CodeTypes
  <2>4. make[c].pc # "new" /\ "failed" # "new"
    BY <1>t
  <2> QED
    BY <2>1, <2>2, <2>3, <2>4, <1>t, GoesTypes
<1>2. Locked'
  BY <1>t, <1>v DEF CodeTypes, Locked, Goes
<1>3. SUFFICES ASSUME ~overlap' PROVE OneAtATime' /\ Registered' /\ BringsFirst' /\ UsedComplete' /\ RestComplete'
  BY <1>1, <1>2 DEF CodeInv, CodeSound
<1>4. OneAtATime /\ Registered /\ BringsFirst /\ UsedComplete /\ RestComplete
  BY <1>3 DEF CodeInv, CodeSound
<1>5. OneAtATime'
  BY <1>4 DEF OneAtATime, Goes
<1>6. Registered'
  BY <1>t, <1>v, <1>4 DEF CodeTypes, OneAtATime, Registered, BringsFirst, Goes, Locked, Bringing
<1>b. UsedOk(c)
  BY <1>4 DEF UsedComplete
<1>a. make[c].pc \in Using => make[c].art \in Creates /\ depOf[make[c].art] \in BOOLEAN
  BY <1>t DEF CodeTypes
<1>7. BringsFirst'
  <2> SUFFICES ASSUME NEW d \in Creates, NEW e \in Creates
               PROVE  /\ make'[d].pc \in {"lookup", "files", "register", "meta", "repair", "reload", "rmtree"}
                           => ~make'[d].cached
                      /\ make'[d].pc = "lookup" => ~make'[d].fresh
                      /\ Bringing(d)' /\ make'[d].pc \in Using => make'[d].art = d
                      /\ Bringing(d)' /\ make'[e].ver = make'[d].ver => make'[e].pc # "live"
    BY DEF BringsFirst
  <2>1. CASE d = c
    BY <2>1, <1>t, <1>v, <1>a, <1>b, <1>d, <1>e, <1>4 DEF CodeTypes, Registered, BringsFirst, UsedOk, Complete, Bringing
  <2>2. CASE d # c
    BY <2>2, <1>t, <1>v, <1>d, <1>e, <1>4 DEF CodeTypes, OneAtATime, Registered, BringsFirst, Bringing
  <2> QED
    BY <2>1, <2>2
<1>c. /\ \A d \in Creates : make[d].ver # make[c].ver => UsedOk(d)'
      /\ \A v \in Versions : v # Ver(c) => RestOk(v)'
  <2>1. /\ \A v \in Versions : v # Ver(c) => codes'[v] = codes[v]
        /\ \A x \in Creates : make[x].ver # Ver(c) => depOf'[x] = depOf[x]
    BY <1>t, <1>v DEF CodeTypes
  <2> QED
    BY <2>1, <1>t, <1>v, <1>4, OtherVersions
<1>8. UsedComplete'
  <2>1. UsedOk(c)'
    BY <1>t, <1>v, <1>a, <1>b, <1>d, <1>e, <1>f, <1>4 DEF CodeTypes, Registered, BringsFirst, UsedOk, RestComplete, RestOk, Dir, Bringing,
       Complete, Imports, DiskType, Deps, OneAtATime
  <2>2. ASSUME NEW d \in Creates, d # c /\ make[d].ver = make[c].ver PROVE UsedOk(d)'
    <3>1. UsedOk(d) /\ make'[d] = make[d]
      BY <2>2, <1>e, <1>4 DEF UsedComplete
    <3>2. make[d].pc \notin Making
      BY <2>2, <1>4 DEF OneAtATime
    <3>3. make[d].pc = "live" => Complete(d) /\ make[d].art \in Creates /\ ~Bringing(c) /\ depOf[make[d].art] \in BOOLEAN
                                 /\ codes[Ver(c)] = make[d].art
      <4> SUFFICES ASSUME make[d].pc = "live"
                   PROVE  Complete(d) /\ make[d].art \in Creates /\ ~Bringing(c) /\ depOf[make[d].art] \in BOOLEAN
                          /\ codes[Ver(c)] = make[d].art
        OBVIOUS
      <4>1. Complete(d)
        BY <3>1 DEF UsedOk
      <4>2. make[d].art \in Creates /\ depOf[make[d].art] \in BOOLEAN
        BY <1>t DEF CodeTypes
      <4>3. ~Bringing(c)
        BY <2>2, <1>4 DEF BringsFirst
      <4>4. codes[Ver(c)] = make[d].art
        BY <2>2, <1>4 DEF Registered
      <4> QED
        BY <4>1, <4>2, <4>3, <4>4
    <3>4. make[d].pc = "live" => Complete(d)'
      BY <2>2, <3>1, <3>3, <1>t, <1>v, <1>a, <1>b, <1>d, <1>f, <1>4 DEF UsedOk, Dir, Bringing, BringsFirst, Complete, Imports, Registered, DiskType
    <3> QED
      BY <3>1, <3>2, <3>4 DEF UsedOk
  <2>3. ASSUME NEW d \in Creates PROVE UsedOk(d)'
    BY <2>1, <2>2, <1>c
  <2> QED
    BY <2>3 DEF UsedComplete
<1>9. RestComplete'
  <2>0. PICK v \in Versions : v = Ver(c)
    BY <1>v
  <2>1. RestOk(v)'
    <3> SUFFICES ASSUME codes'[v] # 0, \A d \in Creates : make'[d].ver = v => ~Bringing(d)'
                 PROVE  /\ disk'[v].dir /\ Imports(codes[v])'
                        /\ depOf'[codes'[v]] = (make'[codes'[v]].deps # "none")
      BY DEF RestOk
    <3>1. ~Bringing(c)'
      BY <1>d, <2>0
    <3>2. codes[Ver(c)] # 0 => codes[Ver(c)] \in Creates /\ make[codes[Ver(c)]].ver = make[c].ver
                               /\ make[codes[Ver(c)]].deps = make[c].deps /\ depOf[codes[Ver(c)]] \in BOOLEAN
      <4>1. codes[Ver(c)] # 0 => codes[Ver(c)] \in Creates /\ make[codes[Ver(c)]].ver = make[c].ver
        BY <1>t, <1>v, OfVersion
      <4> QED
        BY <4>1, <1>t DEF CodeTypes
    <3>4. make[c].pc \in Using \cup {"live"} => codes[Ver(c)] = make[c].art
      BY <1>4 DEF Registered
    <3>5. (make[c].pc \in Using /\ make[c].cached) \/ make[c].pc \in {"executor", "live"} => Complete(c)
      BY <1>b DEF UsedOk
    <3>6. make[c].pc = "live" => ~Bringing(c)
      BY DEF Bringing
    <3>0. \A d \in Creates : make'[d].ver = v => ~Bringing(d)'
      OBVIOUS
    <3>3. ~Bringing(c) /\ codes[Ver(c)] # 0 => disk[Ver(c)].dir /\ Imports(codes[Ver(c)])
                                             /\ depOf[codes[Ver(c)]] = (make[c].deps # "none")
      <4>1. RestOk(Ver(c))
        BY <1>4, <1>v DEF RestComplete
      <4>2. \A d \in Creates : d # c /\ make[d].ver = Ver(c) => ~Bringing(d)
        <5> SUFFICES ASSUME NEW d \in Creates, d # c, make[d].ver = Ver(c) PROVE ~Bringing(d)
          OBVIOUS
        <5>1. make'[d] = make[d] /\ ~Bringing(d)'
          BY <1>d, <1>e, <2>0, <3>0
        <5> QED
          BY <5>1 DEF Bringing
      <4> QED
        BY <4>1, <4>2, <3>2 DEF RestOk
    <3> QED
      BY <2>0, <3>1, <3>2, <3>3, <3>4, <3>5, <3>6, <1>t, <1>v, <1>a, <1>b, <1>d, <1>e, <1>4 DEF Registered, BringsFirst, UsedOk, Dir, Bringing,
         Complete, Imports, CodeTypes
  <2> QED
    BY <2>0, <2>1, <1>c DEF RestComplete
<1> QED
  BY <1>5, <1>6, <1>7, <1>8, <1>9

\* The artifact is registered.
LEMMA RegistersKeeps ==
  ASSUME CodeInv, NEW c \in Creates, At(c, "register"),
         Goes(c, "meta", c, make[c].cached, make[c].fresh),
         codes' = [codes EXCEPT ![Ver(c)] = c], Dir(Ver(c), disk[Ver(c)].dir, disk[Ver(c)].deps), UNCHANGED <<depOf, wlock, rebuild, overlap>>
  PROVE  CodeInv'
<1> USE NodeCodeAssumption DEF At, Ver, Making, Using
<1>t. CodeTypes /\ Locked /\ make \in [Creates -> MakeType]
  BY DEF CodeInv, CodeTypes
<1>v. Ver(c) \in Versions /\ Ver(c) # 0
  BY <1>t DEF CodeTypes, MakeType
<1>d. make' \in [Creates -> MakeType] /\ \A d \in Creates : make'[d].ver = make[d].ver /\ make'[d].deps = make[d].deps
  BY DEF Goes
<1>e. /\ \A d \in Creates : d # c => make'[d] = make[d]
      /\ make'[c].pc = "meta" /\ make'[c].art = c /\ make'[c].cached = make[c].cached /\ make'[c].fresh = make[c].fresh
  BY DEF Goes
<1>f. \A d \in Creates : make[d] \in MakeType /\ make'[d] \in MakeType /\ (make[d].ver \in Versions \/ make[d].pc = "new")
  BY <1>d, <1>t DEF CodeTypes, MakeType
<1>1. CodeTypes'
  <2>1. /\ codes' \in [Versions -> Creates \cup {0}] /\ disk' \in [Versions -> DiskType]
        /\ depOf' \in [Creates -> BOOLEAN] /\ wlock' \in [Versions -> Creates \cup {0}]
    BY <1>t, <1>v DEF CodeTypes, Dir
  <2>2. "meta" \in Using \cup {"live"} => c \in Creates /\ make[c].ver = make[c].ver
    BY <1>t, <1>v DEF CodeTypes
  <2>3. \A v \in Versions : codes'[v] # 0 => make[codes'[v]].ver = v
    BY <1>t, <1>v DEF CodeTypes
  <2>4. make[c].pc # "new" /\ "meta" # "new"
    BY <1>t
  <2> QED
    BY <2>1, <2>2, <2>3, <2>4, <1>t, GoesTypes
<1>2. Locked'
  BY <1>t, <1>v DEF CodeTypes, Locked, Goes
<1>3. SUFFICES ASSUME ~overlap' PROVE OneAtATime' /\ Registered' /\ BringsFirst' /\ UsedComplete' /\ RestComplete'
  BY <1>1, <1>2 DEF CodeInv, CodeSound
<1>4. OneAtATime /\ Registered /\ BringsFirst /\ UsedComplete /\ RestComplete
  BY <1>3 DEF CodeInv, CodeSound
<1>5. OneAtATime'
  BY <1>4 DEF OneAtATime, Goes
<1>6. Registered'
  BY <1>t, <1>v, <1>4 DEF CodeTypes, OneAtATime, Registered, BringsFirst, Goes, Locked, Bringing
<1>b. UsedOk(c)
  BY <1>4 DEF UsedComplete
<1>a. make[c].pc \in Using => make[c].art \in Creates /\ depOf[make[c].art] \in BOOLEAN
  BY <1>t DEF CodeTypes
<1>7. BringsFirst'
  <2> SUFFICES ASSUME NEW d \in Creates, NEW e \in Creates
               PROVE  /\ make'[d].pc \in {"lookup", "files", "register", "meta", "repair", "reload", "rmtree"}
                           => ~make'[d].cached
                      /\ make'[d].pc = "lookup" => ~make'[d].fresh
                      /\ Bringing(d)' /\ make'[d].pc \in Using => make'[d].art = d
                      /\ Bringing(d)' /\ make'[e].ver = make'[d].ver => make'[e].pc # "live"
    BY DEF BringsFirst
  <2>1. CASE d = c
    BY <2>1, <1>t, <1>v, <1>a, <1>b, <1>d, <1>e, <1>4 DEF CodeTypes, Registered, BringsFirst, UsedOk, Complete, Bringing
  <2>2. CASE d # c
    BY <2>2, <1>t, <1>v, <1>d, <1>e, <1>4 DEF CodeTypes, OneAtATime, Registered, BringsFirst, Bringing
  <2> QED
    BY <2>1, <2>2
<1>c. /\ \A d \in Creates : make[d].ver # make[c].ver => UsedOk(d)'
      /\ \A v \in Versions : v # Ver(c) => RestOk(v)'
  <2>1. /\ \A v \in Versions : v # Ver(c) => codes'[v] = codes[v]
        /\ \A x \in Creates : make[x].ver # Ver(c) => depOf'[x] = depOf[x]
    BY <1>t, <1>v DEF CodeTypes
  <2> QED
    BY <2>1, <1>t, <1>v, <1>4, OtherVersions
<1>8. UsedComplete'
  <2>1. UsedOk(c)'
    BY <1>t, <1>v, <1>a, <1>b, <1>d, <1>e, <1>f, <1>4 DEF CodeTypes, Registered, BringsFirst, UsedOk, RestComplete, RestOk, Dir, Bringing,
       Complete, Imports, DiskType, Deps, OneAtATime
  <2>2. ASSUME NEW d \in Creates, d # c /\ make[d].ver = make[c].ver PROVE UsedOk(d)'
    <3>1. UsedOk(d) /\ make'[d] = make[d]
      BY <2>2, <1>e, <1>4 DEF UsedComplete
    <3>2. make[d].pc \notin Making
      BY <2>2, <1>4 DEF OneAtATime
    <3>3. make[d].pc = "live" => Complete(d) /\ make[d].art \in Creates /\ ~Bringing(c) /\ depOf[make[d].art] \in BOOLEAN
                                 /\ codes[Ver(c)] = make[d].art
      <4> SUFFICES ASSUME make[d].pc = "live"
                   PROVE  Complete(d) /\ make[d].art \in Creates /\ ~Bringing(c) /\ depOf[make[d].art] \in BOOLEAN
                          /\ codes[Ver(c)] = make[d].art
        OBVIOUS
      <4>1. Complete(d)
        BY <3>1 DEF UsedOk
      <4>2. make[d].art \in Creates /\ depOf[make[d].art] \in BOOLEAN
        BY <1>t DEF CodeTypes
      <4>3. ~Bringing(c)
        BY <2>2, <1>4 DEF BringsFirst
      <4>4. codes[Ver(c)] = make[d].art
        BY <2>2, <1>4 DEF Registered
      <4> QED
        BY <4>1, <4>2, <4>3, <4>4
    <3>4. make[d].pc = "live" => Complete(d)'
      BY <2>2, <3>1, <3>3, <1>t, <1>v, <1>a, <1>b, <1>d, <1>f, <1>4 DEF UsedOk, Dir, Bringing, BringsFirst, Complete, Imports, Registered, DiskType
    <3> QED
      BY <3>1, <3>2, <3>4 DEF UsedOk
  <2>3. ASSUME NEW d \in Creates PROVE UsedOk(d)'
    BY <2>1, <2>2, <1>c
  <2> QED
    BY <2>3 DEF UsedComplete
<1>9. RestComplete'
  <2>0. PICK v \in Versions : v = Ver(c)
    BY <1>v
  <2>1. RestOk(v)'
    <3> SUFFICES ASSUME codes'[v] # 0, \A d \in Creates : make'[d].ver = v => ~Bringing(d)'
                 PROVE  /\ disk'[v].dir /\ Imports(codes[v])'
                        /\ depOf'[codes'[v]] = (make'[codes'[v]].deps # "none")
      BY DEF RestOk
    <3>1. ~Bringing(c)'
      BY <1>d, <2>0
    <3>2. codes[Ver(c)] # 0 => codes[Ver(c)] \in Creates /\ make[codes[Ver(c)]].ver = make[c].ver
                               /\ make[codes[Ver(c)]].deps = make[c].deps /\ depOf[codes[Ver(c)]] \in BOOLEAN
      <4>1. codes[Ver(c)] # 0 => codes[Ver(c)] \in Creates /\ make[codes[Ver(c)]].ver = make[c].ver
        BY <1>t, <1>v, OfVersion
      <4> QED
        BY <4>1, <1>t DEF CodeTypes
    <3>4. make[c].pc \in Using \cup {"live"} => codes[Ver(c)] = make[c].art
      BY <1>4 DEF Registered
    <3>5. (make[c].pc \in Using /\ make[c].cached) \/ make[c].pc \in {"executor", "live"} => Complete(c)
      BY <1>b DEF UsedOk
    <3>6. make[c].pc = "live" => ~Bringing(c)
      BY DEF Bringing
    <3>0. \A d \in Creates : make'[d].ver = v => ~Bringing(d)'
      OBVIOUS
    <3>3. ~Bringing(c) /\ codes[Ver(c)] # 0 => disk[Ver(c)].dir /\ Imports(codes[Ver(c)])
                                             /\ depOf[codes[Ver(c)]] = (make[c].deps # "none")
      <4>1. RestOk(Ver(c))
        BY <1>4, <1>v DEF RestComplete
      <4>2. \A d \in Creates : d # c /\ make[d].ver = Ver(c) => ~Bringing(d)
        <5> SUFFICES ASSUME NEW d \in Creates, d # c, make[d].ver = Ver(c) PROVE ~Bringing(d)
          OBVIOUS
        <5>1. make'[d] = make[d] /\ ~Bringing(d)'
          BY <1>d, <1>e, <2>0, <3>0
        <5> QED
          BY <5>1 DEF Bringing
      <4> QED
        BY <4>1, <4>2, <3>2 DEF RestOk
    <3> QED
      BY <2>0, <3>1, <3>2, <3>3, <3>4, <3>5, <3>6, <1>t, <1>v, <1>a, <1>b, <1>d, <1>e, <1>4 DEF Registered, BringsFirst, UsedOk, Dir, Bringing,
         Complete, Imports, CodeTypes
  <2> QED
    BY <2>0, <2>1, <1>c DEF RestComplete
<1> QED
  BY <1>5, <1>6, <1>7, <1>8, <1>9

\* Its metadata is written.
LEMMA MetasKeeps ==
  ASSUME CodeInv, NEW c \in Creates, At(c, "meta"),
         Goes(c, "install", make[c].art, make[c].cached, make[c].fresh),
         Dir(Ver(c), TRUE, disk[Ver(c)].deps),
         wlock' = [wlock EXCEPT ![Ver(c)] = IF @ = c THEN 0 ELSE @], UNCHANGED <<codes, depOf, rebuild, overlap>>
  PROVE  CodeInv'
<1> USE NodeCodeAssumption DEF At, Ver, Making, Using
<1>t. CodeTypes /\ Locked /\ make \in [Creates -> MakeType]
  BY DEF CodeInv, CodeTypes
<1>v. Ver(c) \in Versions /\ Ver(c) # 0
  BY <1>t DEF CodeTypes, MakeType
<1>d. make' \in [Creates -> MakeType] /\ \A d \in Creates : make'[d].ver = make[d].ver /\ make'[d].deps = make[d].deps
  BY DEF Goes
<1>e. /\ \A d \in Creates : d # c => make'[d] = make[d]
      /\ make'[c].pc = "install" /\ make'[c].art = make[c].art /\ make'[c].cached = make[c].cached /\ make'[c].fresh = make[c].fresh
  BY DEF Goes
<1>f. \A d \in Creates : make[d] \in MakeType /\ make'[d] \in MakeType /\ (make[d].ver \in Versions \/ make[d].pc = "new")
  BY <1>d, <1>t DEF CodeTypes, MakeType
<1>1. CodeTypes'
  <2>1. /\ codes' \in [Versions -> Creates \cup {0}] /\ disk' \in [Versions -> DiskType]
        /\ depOf' \in [Creates -> BOOLEAN] /\ wlock' \in [Versions -> Creates \cup {0}]
    BY <1>t, <1>v DEF CodeTypes, Dir
  <2>2. "install" \in Using \cup {"live"} => make[c].art \in Creates /\ make[make[c].art].ver = make[c].ver
    BY <1>t, <1>v DEF CodeTypes
  <2>3. \A v \in Versions : codes'[v] # 0 => make[codes'[v]].ver = v
    BY <1>t, <1>v DEF CodeTypes
  <2>4. make[c].pc # "new" /\ "install" # "new"
    BY <1>t
  <2> QED
    BY <2>1, <2>2, <2>3, <2>4, <1>t, GoesTypes
<1>2. Locked'
  BY <1>t, <1>v DEF CodeTypes, Locked, Goes
<1>3. SUFFICES ASSUME ~overlap' PROVE OneAtATime' /\ Registered' /\ BringsFirst' /\ UsedComplete' /\ RestComplete'
  BY <1>1, <1>2 DEF CodeInv, CodeSound
<1>4. OneAtATime /\ Registered /\ BringsFirst /\ UsedComplete /\ RestComplete
  BY <1>3 DEF CodeInv, CodeSound
<1>5. OneAtATime'
  BY <1>4 DEF OneAtATime, Goes
<1>6. Registered'
  BY <1>t, <1>v, <1>4 DEF CodeTypes, OneAtATime, Registered, BringsFirst, Goes, Locked, Bringing
<1>b. UsedOk(c)
  BY <1>4 DEF UsedComplete
<1>a. make[c].pc \in Using => make[c].art \in Creates /\ depOf[make[c].art] \in BOOLEAN
  BY <1>t DEF CodeTypes
<1>7. BringsFirst'
  <2> SUFFICES ASSUME NEW d \in Creates, NEW e \in Creates
               PROVE  /\ make'[d].pc \in {"lookup", "files", "register", "meta", "repair", "reload", "rmtree"}
                           => ~make'[d].cached
                      /\ make'[d].pc = "lookup" => ~make'[d].fresh
                      /\ Bringing(d)' /\ make'[d].pc \in Using => make'[d].art = d
                      /\ Bringing(d)' /\ make'[e].ver = make'[d].ver => make'[e].pc # "live"
    BY DEF BringsFirst
  <2>1. CASE d = c
    BY <2>1, <1>t, <1>v, <1>a, <1>b, <1>d, <1>e, <1>4 DEF CodeTypes, Registered, BringsFirst, UsedOk, Complete, Bringing
  <2>2. CASE d # c
    BY <2>2, <1>t, <1>v, <1>d, <1>e, <1>4 DEF CodeTypes, OneAtATime, Registered, BringsFirst, Bringing
  <2> QED
    BY <2>1, <2>2
<1>c. /\ \A d \in Creates : make[d].ver # make[c].ver => UsedOk(d)'
      /\ \A v \in Versions : v # Ver(c) => RestOk(v)'
  <2>1. /\ \A v \in Versions : v # Ver(c) => codes'[v] = codes[v]
        /\ \A x \in Creates : make[x].ver # Ver(c) => depOf'[x] = depOf[x]
    BY <1>t, <1>v DEF CodeTypes
  <2> QED
    BY <2>1, <1>t, <1>v, <1>4, OtherVersions
<1>8. UsedComplete'
  <2>1. UsedOk(c)'
    BY <1>t, <1>v, <1>a, <1>b, <1>d, <1>e, <1>f, <1>4 DEF CodeTypes, Registered, BringsFirst, UsedOk, RestComplete, RestOk, Dir, Bringing,
       Complete, Imports, DiskType, Deps, OneAtATime
  <2>2. ASSUME NEW d \in Creates, d # c /\ make[d].ver = make[c].ver PROVE UsedOk(d)'
    <3>1. UsedOk(d) /\ make'[d] = make[d]
      BY <2>2, <1>e, <1>4 DEF UsedComplete
    <3>2. make[d].pc \notin Making
      BY <2>2, <1>4 DEF OneAtATime
    <3>3. make[d].pc = "live" => Complete(d) /\ make[d].art \in Creates /\ ~Bringing(c) /\ depOf[make[d].art] \in BOOLEAN
                                 /\ codes[Ver(c)] = make[d].art
      <4> SUFFICES ASSUME make[d].pc = "live"
                   PROVE  Complete(d) /\ make[d].art \in Creates /\ ~Bringing(c) /\ depOf[make[d].art] \in BOOLEAN
                          /\ codes[Ver(c)] = make[d].art
        OBVIOUS
      <4>1. Complete(d)
        BY <3>1 DEF UsedOk
      <4>2. make[d].art \in Creates /\ depOf[make[d].art] \in BOOLEAN
        BY <1>t DEF CodeTypes
      <4>3. ~Bringing(c)
        BY <2>2, <1>4 DEF BringsFirst
      <4>4. codes[Ver(c)] = make[d].art
        BY <2>2, <1>4 DEF Registered
      <4> QED
        BY <4>1, <4>2, <4>3, <4>4
    <3>4. make[d].pc = "live" => Complete(d)'
      BY <2>2, <3>1, <3>3, <1>t, <1>v, <1>a, <1>b, <1>d, <1>f, <1>4 DEF UsedOk, Dir, Bringing, BringsFirst, Complete, Imports, Registered, DiskType
    <3> QED
      BY <3>1, <3>2, <3>4 DEF UsedOk
  <2>3. ASSUME NEW d \in Creates PROVE UsedOk(d)'
    BY <2>1, <2>2, <1>c
  <2> QED
    BY <2>3 DEF UsedComplete
<1>9. RestComplete'
  <2>0. PICK v \in Versions : v = Ver(c)
    BY <1>v
  <2>1. RestOk(v)'
    <3> SUFFICES ASSUME codes'[v] # 0, \A d \in Creates : make'[d].ver = v => ~Bringing(d)'
                 PROVE  /\ disk'[v].dir /\ Imports(codes[v])'
                        /\ depOf'[codes'[v]] = (make'[codes'[v]].deps # "none")
      BY DEF RestOk
    <3>1. ~Bringing(c)'
      BY <1>d, <2>0
    <3>2. codes[Ver(c)] # 0 => codes[Ver(c)] \in Creates /\ make[codes[Ver(c)]].ver = make[c].ver
                               /\ make[codes[Ver(c)]].deps = make[c].deps /\ depOf[codes[Ver(c)]] \in BOOLEAN
      <4>1. codes[Ver(c)] # 0 => codes[Ver(c)] \in Creates /\ make[codes[Ver(c)]].ver = make[c].ver
        BY <1>t, <1>v, OfVersion
      <4> QED
        BY <4>1, <1>t DEF CodeTypes
    <3>4. make[c].pc \in Using \cup {"live"} => codes[Ver(c)] = make[c].art
      BY <1>4 DEF Registered
    <3>5. (make[c].pc \in Using /\ make[c].cached) \/ make[c].pc \in {"executor", "live"} => Complete(c)
      BY <1>b DEF UsedOk
    <3>6. make[c].pc = "live" => ~Bringing(c)
      BY DEF Bringing
    <3>0. \A d \in Creates : make'[d].ver = v => ~Bringing(d)'
      OBVIOUS
    <3>3. ~Bringing(c) /\ codes[Ver(c)] # 0 => disk[Ver(c)].dir /\ Imports(codes[Ver(c)])
                                             /\ depOf[codes[Ver(c)]] = (make[c].deps # "none")
      <4>1. RestOk(Ver(c))
        BY <1>4, <1>v DEF RestComplete
      <4>2. \A d \in Creates : d # c /\ make[d].ver = Ver(c) => ~Bringing(d)
        <5> SUFFICES ASSUME NEW d \in Creates, d # c, make[d].ver = Ver(c) PROVE ~Bringing(d)
          OBVIOUS
        <5>1. make'[d] = make[d] /\ ~Bringing(d)'
          BY <1>d, <1>e, <2>0, <3>0
        <5> QED
          BY <5>1 DEF Bringing
      <4> QED
        BY <4>1, <4>2, <3>2 DEF RestOk
    <3> QED
      BY <2>0, <3>1, <3>2, <3>3, <3>4, <3>5, <3>6, <1>t, <1>v, <1>a, <1>b, <1>d, <1>e, <1>4 DEF Registered, BringsFirst, UsedOk, Dir, Bringing,
         Complete, Imports, CodeTypes
  <2> QED
    BY <2>0, <2>1, <1>c DEF RestComplete
<1> QED
  BY <1>5, <1>6, <1>7, <1>8, <1>9

\* Dependencies are installed.
LEMMA InstallsKeeps ==
  ASSUME CodeInv, NEW c \in Creates, At(c, "install"), make[c].deps # "none", ~depOf[make[c].art],
         Goes(c, "load", make[c].art, make[c].cached, TRUE),
         Dir(Ver(c), TRUE, TRUE),
         UNCHANGED <<codes, depOf, wlock, rebuild, overlap>>
  PROVE  CodeInv'
<1> USE NodeCodeAssumption DEF At, Ver, Making, Using
<1>t. CodeTypes /\ Locked /\ make \in [Creates -> MakeType]
  BY DEF CodeInv, CodeTypes
<1>v. Ver(c) \in Versions /\ Ver(c) # 0
  BY <1>t DEF CodeTypes, MakeType
<1>d. make' \in [Creates -> MakeType] /\ \A d \in Creates : make'[d].ver = make[d].ver /\ make'[d].deps = make[d].deps
  BY DEF Goes
<1>e. /\ \A d \in Creates : d # c => make'[d] = make[d]
      /\ make'[c].pc = "load" /\ make'[c].art = make[c].art /\ make'[c].cached = make[c].cached /\ make'[c].fresh = TRUE
  BY DEF Goes
<1>f. \A d \in Creates : make[d] \in MakeType /\ make'[d] \in MakeType /\ (make[d].ver \in Versions \/ make[d].pc = "new")
  BY <1>d, <1>t DEF CodeTypes, MakeType
<1>1. CodeTypes'
  <2>1. /\ codes' \in [Versions -> Creates \cup {0}] /\ disk' \in [Versions -> DiskType]
        /\ depOf' \in [Creates -> BOOLEAN] /\ wlock' \in [Versions -> Creates \cup {0}]
    BY <1>t, <1>v DEF CodeTypes, Dir
  <2>2. "load" \in Using \cup {"live"} => make[c].art \in Creates /\ make[make[c].art].ver = make[c].ver
    BY <1>t, <1>v DEF CodeTypes
  <2>3. \A v \in Versions : codes'[v] # 0 => make[codes'[v]].ver = v
    BY <1>t, <1>v DEF CodeTypes
  <2>4. make[c].pc # "new" /\ "load" # "new"
    BY <1>t
  <2> QED
    BY <2>1, <2>2, <2>3, <2>4, <1>t, GoesTypes
<1>2. Locked'
  BY <1>t, <1>v DEF CodeTypes, Locked, Goes
<1>3. SUFFICES ASSUME ~overlap' PROVE OneAtATime' /\ Registered' /\ BringsFirst' /\ UsedComplete' /\ RestComplete'
  BY <1>1, <1>2 DEF CodeInv, CodeSound
<1>4. OneAtATime /\ Registered /\ BringsFirst /\ UsedComplete /\ RestComplete
  BY <1>3 DEF CodeInv, CodeSound
<1>5. OneAtATime'
  BY <1>4 DEF OneAtATime, Goes
<1>6. Registered'
  BY <1>t, <1>v, <1>4 DEF CodeTypes, OneAtATime, Registered, BringsFirst, Goes, Locked, Bringing
<1>b. UsedOk(c)
  BY <1>4 DEF UsedComplete
<1>a. make[c].pc \in Using => make[c].art \in Creates /\ depOf[make[c].art] \in BOOLEAN
  BY <1>t DEF CodeTypes
<1>7. BringsFirst'
  <2> SUFFICES ASSUME NEW d \in Creates, NEW e \in Creates
               PROVE  /\ make'[d].pc \in {"lookup", "files", "register", "meta", "repair", "reload", "rmtree"}
                           => ~make'[d].cached
                      /\ make'[d].pc = "lookup" => ~make'[d].fresh
                      /\ Bringing(d)' /\ make'[d].pc \in Using => make'[d].art = d
                      /\ Bringing(d)' /\ make'[e].ver = make'[d].ver => make'[e].pc # "live"
    BY DEF BringsFirst
  <2>1. CASE d = c
    BY <2>1, <1>t, <1>v, <1>a, <1>b, <1>d, <1>e, <1>4 DEF CodeTypes, Registered, BringsFirst, UsedOk, Complete, Bringing
  <2>2. CASE d # c
    BY <2>2, <1>t, <1>v, <1>d, <1>e, <1>4 DEF CodeTypes, OneAtATime, Registered, BringsFirst, Bringing
  <2> QED
    BY <2>1, <2>2
<1>c. /\ \A d \in Creates : make[d].ver # make[c].ver => UsedOk(d)'
      /\ \A v \in Versions : v # Ver(c) => RestOk(v)'
  <2>1. /\ \A v \in Versions : v # Ver(c) => codes'[v] = codes[v]
        /\ \A x \in Creates : make[x].ver # Ver(c) => depOf'[x] = depOf[x]
    BY <1>t, <1>v DEF CodeTypes
  <2> QED
    BY <2>1, <1>t, <1>v, <1>4, OtherVersions
<1>8. UsedComplete'
  <2>1. UsedOk(c)'
    BY <1>t, <1>v, <1>a, <1>b, <1>d, <1>e, <1>f, <1>4 DEF CodeTypes, Registered, BringsFirst, UsedOk, RestComplete, RestOk, Dir, Bringing,
       Complete, Imports, DiskType, Deps, OneAtATime
  <2>2. ASSUME NEW d \in Creates, d # c /\ make[d].ver = make[c].ver PROVE UsedOk(d)'
    <3>1. UsedOk(d) /\ make'[d] = make[d]
      BY <2>2, <1>e, <1>4 DEF UsedComplete
    <3>2. make[d].pc \notin Making
      BY <2>2, <1>4 DEF OneAtATime
    <3>3. make[d].pc = "live" => Complete(d) /\ make[d].art \in Creates /\ ~Bringing(c) /\ depOf[make[d].art] \in BOOLEAN
                                 /\ codes[Ver(c)] = make[d].art
      <4> SUFFICES ASSUME make[d].pc = "live"
                   PROVE  Complete(d) /\ make[d].art \in Creates /\ ~Bringing(c) /\ depOf[make[d].art] \in BOOLEAN
                          /\ codes[Ver(c)] = make[d].art
        OBVIOUS
      <4>1. Complete(d)
        BY <3>1 DEF UsedOk
      <4>2. make[d].art \in Creates /\ depOf[make[d].art] \in BOOLEAN
        BY <1>t DEF CodeTypes
      <4>3. ~Bringing(c)
        BY <2>2, <1>4 DEF BringsFirst
      <4>4. codes[Ver(c)] = make[d].art
        BY <2>2, <1>4 DEF Registered
      <4> QED
        BY <4>1, <4>2, <4>3, <4>4
    <3>4. make[d].pc = "live" => Complete(d)'
      BY <2>2, <3>1, <3>3, <1>t, <1>v, <1>a, <1>b, <1>d, <1>f, <1>4 DEF UsedOk, Dir, Bringing, BringsFirst, Complete, Imports, Registered, DiskType
    <3> QED
      BY <3>1, <3>2, <3>4 DEF UsedOk
  <2>3. ASSUME NEW d \in Creates PROVE UsedOk(d)'
    BY <2>1, <2>2, <1>c
  <2> QED
    BY <2>3 DEF UsedComplete
<1>9. RestComplete'
  <2>0. PICK v \in Versions : v = Ver(c)
    BY <1>v
  <2>1. RestOk(v)'
    <3> SUFFICES ASSUME codes'[v] # 0, \A d \in Creates : make'[d].ver = v => ~Bringing(d)'
                 PROVE  /\ disk'[v].dir /\ Imports(codes[v])'
                        /\ depOf'[codes'[v]] = (make'[codes'[v]].deps # "none")
      BY DEF RestOk
    <3>1. ~Bringing(c)'
      BY <1>d, <2>0
    <3>2. codes[Ver(c)] # 0 => codes[Ver(c)] \in Creates /\ make[codes[Ver(c)]].ver = make[c].ver
                               /\ make[codes[Ver(c)]].deps = make[c].deps /\ depOf[codes[Ver(c)]] \in BOOLEAN
      <4>1. codes[Ver(c)] # 0 => codes[Ver(c)] \in Creates /\ make[codes[Ver(c)]].ver = make[c].ver
        BY <1>t, <1>v, OfVersion
      <4> QED
        BY <4>1, <1>t DEF CodeTypes
    <3>4. make[c].pc \in Using \cup {"live"} => codes[Ver(c)] = make[c].art
      BY <1>4 DEF Registered
    <3>5. (make[c].pc \in Using /\ make[c].cached) \/ make[c].pc \in {"executor", "live"} => Complete(c)
      BY <1>b DEF UsedOk
    <3>6. make[c].pc = "live" => ~Bringing(c)
      BY DEF Bringing
    <3>0. \A d \in Creates : make'[d].ver = v => ~Bringing(d)'
      OBVIOUS
    <3>3. ~Bringing(c) /\ codes[Ver(c)] # 0 => disk[Ver(c)].dir /\ Imports(codes[Ver(c)])
                                             /\ depOf[codes[Ver(c)]] = (make[c].deps # "none")
      <4>1. RestOk(Ver(c))
        BY <1>4, <1>v DEF RestComplete
      <4>2. \A d \in Creates : d # c /\ make[d].ver = Ver(c) => ~Bringing(d)
        <5> SUFFICES ASSUME NEW d \in Creates, d # c, make[d].ver = Ver(c) PROVE ~Bringing(d)
          OBVIOUS
        <5>1. make'[d] = make[d] /\ ~Bringing(d)'
          BY <1>d, <1>e, <2>0, <3>0
        <5> QED
          BY <5>1 DEF Bringing
      <4> QED
        BY <4>1, <4>2, <3>2 DEF RestOk
    <3> QED
      BY <2>0, <3>1, <3>2, <3>3, <3>4, <3>5, <3>6, <1>t, <1>v, <1>a, <1>b, <1>d, <1>e, <1>4 DEF Registered, BringsFirst, UsedOk, Dir, Bringing,
         Complete, Imports, CodeTypes
  <2> QED
    BY <2>0, <2>1, <1>c DEF RestComplete
<1> QED
  BY <1>5, <1>6, <1>7, <1>8, <1>9

\* Nothing is to be installed.
LEMMA HasAllKeeps ==
  ASSUME CodeInv, NEW c \in Creates, At(c, "install"), make[c].deps = "none" \/ depOf[make[c].art],
         Goes(c, "load", make[c].art, make[c].cached, FALSE),
         Dir(Ver(c), disk[Ver(c)].dir, disk[Ver(c)].deps), UNCHANGED <<codes, depOf, wlock, rebuild, overlap>>
  PROVE  CodeInv'
<1> USE NodeCodeAssumption DEF At, Ver, Making, Using
<1>t. CodeTypes /\ Locked /\ make \in [Creates -> MakeType]
  BY DEF CodeInv, CodeTypes
<1>v. Ver(c) \in Versions /\ Ver(c) # 0
  BY <1>t DEF CodeTypes, MakeType
<1>d. make' \in [Creates -> MakeType] /\ \A d \in Creates : make'[d].ver = make[d].ver /\ make'[d].deps = make[d].deps
  BY DEF Goes
<1>e. /\ \A d \in Creates : d # c => make'[d] = make[d]
      /\ make'[c].pc = "load" /\ make'[c].art = make[c].art /\ make'[c].cached = make[c].cached /\ make'[c].fresh = FALSE
  BY DEF Goes
<1>f. \A d \in Creates : make[d] \in MakeType /\ make'[d] \in MakeType /\ (make[d].ver \in Versions \/ make[d].pc = "new")
  BY <1>d, <1>t DEF CodeTypes, MakeType
<1>1. CodeTypes'
  <2>1. /\ codes' \in [Versions -> Creates \cup {0}] /\ disk' \in [Versions -> DiskType]
        /\ depOf' \in [Creates -> BOOLEAN] /\ wlock' \in [Versions -> Creates \cup {0}]
    BY <1>t, <1>v DEF CodeTypes, Dir
  <2>2. "load" \in Using \cup {"live"} => make[c].art \in Creates /\ make[make[c].art].ver = make[c].ver
    BY <1>t, <1>v DEF CodeTypes
  <2>3. \A v \in Versions : codes'[v] # 0 => make[codes'[v]].ver = v
    BY <1>t, <1>v DEF CodeTypes
  <2>4. make[c].pc # "new" /\ "load" # "new"
    BY <1>t
  <2> QED
    BY <2>1, <2>2, <2>3, <2>4, <1>t, GoesTypes
<1>2. Locked'
  BY <1>t, <1>v DEF CodeTypes, Locked, Goes
<1>3. SUFFICES ASSUME ~overlap' PROVE OneAtATime' /\ Registered' /\ BringsFirst' /\ UsedComplete' /\ RestComplete'
  BY <1>1, <1>2 DEF CodeInv, CodeSound
<1>4. OneAtATime /\ Registered /\ BringsFirst /\ UsedComplete /\ RestComplete
  BY <1>3 DEF CodeInv, CodeSound
<1>5. OneAtATime'
  BY <1>4 DEF OneAtATime, Goes
<1>6. Registered'
  BY <1>t, <1>v, <1>4 DEF CodeTypes, OneAtATime, Registered, BringsFirst, Goes, Locked, Bringing
<1>b. UsedOk(c)
  BY <1>4 DEF UsedComplete
<1>a. make[c].pc \in Using => make[c].art \in Creates /\ depOf[make[c].art] \in BOOLEAN
  BY <1>t DEF CodeTypes
<1>7. BringsFirst'
  <2> SUFFICES ASSUME NEW d \in Creates, NEW e \in Creates
               PROVE  /\ make'[d].pc \in {"lookup", "files", "register", "meta", "repair", "reload", "rmtree"}
                           => ~make'[d].cached
                      /\ make'[d].pc = "lookup" => ~make'[d].fresh
                      /\ Bringing(d)' /\ make'[d].pc \in Using => make'[d].art = d
                      /\ Bringing(d)' /\ make'[e].ver = make'[d].ver => make'[e].pc # "live"
    BY DEF BringsFirst
  <2>1. CASE d = c
    BY <2>1, <1>t, <1>v, <1>a, <1>b, <1>d, <1>e, <1>4 DEF CodeTypes, Registered, BringsFirst, UsedOk, Complete, Bringing
  <2>2. CASE d # c
    BY <2>2, <1>t, <1>v, <1>d, <1>e, <1>4 DEF CodeTypes, OneAtATime, Registered, BringsFirst, Bringing
  <2> QED
    BY <2>1, <2>2
<1>c. /\ \A d \in Creates : make[d].ver # make[c].ver => UsedOk(d)'
      /\ \A v \in Versions : v # Ver(c) => RestOk(v)'
  <2>1. /\ \A v \in Versions : v # Ver(c) => codes'[v] = codes[v]
        /\ \A x \in Creates : make[x].ver # Ver(c) => depOf'[x] = depOf[x]
    BY <1>t, <1>v DEF CodeTypes
  <2> QED
    BY <2>1, <1>t, <1>v, <1>4, OtherVersions
<1>8. UsedComplete'
  <2>1. UsedOk(c)'
    BY <1>t, <1>v, <1>a, <1>b, <1>d, <1>e, <1>f, <1>4 DEF CodeTypes, Registered, BringsFirst, UsedOk, RestComplete, RestOk, Dir, Bringing,
       Complete, Imports, DiskType, Deps, OneAtATime
  <2>2. ASSUME NEW d \in Creates, d # c /\ make[d].ver = make[c].ver PROVE UsedOk(d)'
    <3>1. UsedOk(d) /\ make'[d] = make[d]
      BY <2>2, <1>e, <1>4 DEF UsedComplete
    <3>2. make[d].pc \notin Making
      BY <2>2, <1>4 DEF OneAtATime
    <3>3. make[d].pc = "live" => Complete(d) /\ make[d].art \in Creates /\ ~Bringing(c) /\ depOf[make[d].art] \in BOOLEAN
                                 /\ codes[Ver(c)] = make[d].art
      <4> SUFFICES ASSUME make[d].pc = "live"
                   PROVE  Complete(d) /\ make[d].art \in Creates /\ ~Bringing(c) /\ depOf[make[d].art] \in BOOLEAN
                          /\ codes[Ver(c)] = make[d].art
        OBVIOUS
      <4>1. Complete(d)
        BY <3>1 DEF UsedOk
      <4>2. make[d].art \in Creates /\ depOf[make[d].art] \in BOOLEAN
        BY <1>t DEF CodeTypes
      <4>3. ~Bringing(c)
        BY <2>2, <1>4 DEF BringsFirst
      <4>4. codes[Ver(c)] = make[d].art
        BY <2>2, <1>4 DEF Registered
      <4> QED
        BY <4>1, <4>2, <4>3, <4>4
    <3>4. make[d].pc = "live" => Complete(d)'
      BY <2>2, <3>1, <3>3, <1>t, <1>v, <1>a, <1>b, <1>d, <1>f, <1>4 DEF UsedOk, Dir, Bringing, BringsFirst, Complete, Imports, Registered, DiskType
    <3> QED
      BY <3>1, <3>2, <3>4 DEF UsedOk
  <2>3. ASSUME NEW d \in Creates PROVE UsedOk(d)'
    BY <2>1, <2>2, <1>c
  <2> QED
    BY <2>3 DEF UsedComplete
<1>9. RestComplete'
  <2>0. PICK v \in Versions : v = Ver(c)
    BY <1>v
  <2>1. RestOk(v)'
    <3> SUFFICES ASSUME codes'[v] # 0, \A d \in Creates : make'[d].ver = v => ~Bringing(d)'
                 PROVE  /\ disk'[v].dir /\ Imports(codes[v])'
                        /\ depOf'[codes'[v]] = (make'[codes'[v]].deps # "none")
      BY DEF RestOk
    <3>1. ~Bringing(c)'
      BY <1>d, <2>0
    <3>2. codes[Ver(c)] # 0 => codes[Ver(c)] \in Creates /\ make[codes[Ver(c)]].ver = make[c].ver
                               /\ make[codes[Ver(c)]].deps = make[c].deps /\ depOf[codes[Ver(c)]] \in BOOLEAN
      <4>1. codes[Ver(c)] # 0 => codes[Ver(c)] \in Creates /\ make[codes[Ver(c)]].ver = make[c].ver
        BY <1>t, <1>v, OfVersion
      <4> QED
        BY ZenonT(60), <4>1, <1>t DEF CodeTypes
    <3>4. make[c].pc \in Using \cup {"live"} => codes[Ver(c)] = make[c].art
      BY <1>4 DEF Registered
    <3>5. (make[c].pc \in Using /\ make[c].cached) \/ make[c].pc \in {"executor", "live"} => Complete(c)
      BY <1>b DEF UsedOk
    <3>6. make[c].pc = "live" => ~Bringing(c)
      BY DEF Bringing
    <3>0. \A d \in Creates : make'[d].ver = v => ~Bringing(d)'
      OBVIOUS
    <3>3. ~Bringing(c) /\ codes[Ver(c)] # 0 => disk[Ver(c)].dir /\ Imports(codes[Ver(c)])
                                             /\ depOf[codes[Ver(c)]] = (make[c].deps # "none")
      <4>1. RestOk(Ver(c))
        BY <1>4, <1>v DEF RestComplete
      <4>2. \A d \in Creates : d # c /\ make[d].ver = Ver(c) => ~Bringing(d)
        <5> SUFFICES ASSUME NEW d \in Creates, d # c, make[d].ver = Ver(c) PROVE ~Bringing(d)
          OBVIOUS
        <5>1. make'[d] = make[d] /\ ~Bringing(d)'
          BY <1>d, <1>e, <2>0, <3>0
        <5> QED
          BY <5>1 DEF Bringing
      <4> QED
        BY <4>1, <4>2, <3>2 DEF RestOk
    <3> QED
      BY ZenonT(60), <2>0, <3>1, <3>2, <3>3, <3>4, <3>5, <3>6, <1>t, <1>v, <1>a, <1>b, <1>d, <1>e, <1>4 DEF Registered, BringsFirst, UsedOk, Dir, Bringing,
         Complete, Imports, CodeTypes
  <2> QED
    BY <2>0, <2>1, <1>c DEF RestComplete
<1> QED
  BY <1>5, <1>6, <1>7, <1>8, <1>9

\* The trial load passes.
LEMMA ReadiesKeeps ==
  ASSUME CodeInv, NEW c \in Creates, make[c].pc \in {"load", "reload"}, Imports(c),
         Goes(c, "executor", make[c].art, make[c].cached, make[c].fresh),
         depOf' = [depOf EXCEPT ![make[c].art] = make[c].deps # "none"],
         NEW dir \in BOOLEAN, disk[Ver(c)].dir => dir, Dir(Ver(c), dir, disk[Ver(c)].deps),
         UNCHANGED <<codes, wlock, rebuild, overlap>>
  PROVE  CodeInv'
<1> USE NodeCodeAssumption DEF At, Ver, Making, Using
<1>t. CodeTypes /\ Locked /\ make \in [Creates -> MakeType]
  BY DEF CodeInv, CodeTypes
<1>v. Ver(c) \in Versions /\ Ver(c) # 0
  BY <1>t DEF CodeTypes, MakeType
<1>d. make' \in [Creates -> MakeType] /\ \A d \in Creates : make'[d].ver = make[d].ver /\ make'[d].deps = make[d].deps
  BY DEF Goes
<1>e. /\ \A d \in Creates : d # c => make'[d] = make[d]
      /\ make'[c].pc = "executor" /\ make'[c].art = make[c].art /\ make'[c].cached = make[c].cached /\ make'[c].fresh = make[c].fresh
  BY DEF Goes
<1>f. \A d \in Creates : make[d] \in MakeType /\ make'[d] \in MakeType /\ (make[d].ver \in Versions \/ make[d].pc = "new")
  BY <1>d, <1>t DEF CodeTypes, MakeType
<1>1. CodeTypes'
  <2>1. /\ codes' \in [Versions -> Creates \cup {0}] /\ disk' \in [Versions -> DiskType]
        /\ depOf' \in [Creates -> BOOLEAN] /\ wlock' \in [Versions -> Creates \cup {0}]
    BY <1>t, <1>v DEF CodeTypes, Dir
  <2>2. "executor" \in Using \cup {"live"} => make[c].art \in Creates /\ make[make[c].art].ver = make[c].ver
    BY <1>t, <1>v DEF CodeTypes
  <2>3. \A v \in Versions : codes'[v] # 0 => make[codes'[v]].ver = v
    BY <1>t, <1>v DEF CodeTypes
  <2>4. make[c].pc # "new" /\ "executor" # "new"
    BY <1>t
  <2> QED
    BY <2>1, <2>2, <2>3, <2>4, <1>t, GoesTypes
<1>2. Locked'
  BY <1>t, <1>v DEF CodeTypes, Locked, Goes
<1>3. SUFFICES ASSUME ~overlap' PROVE OneAtATime' /\ Registered' /\ BringsFirst' /\ UsedComplete' /\ RestComplete'
  BY <1>1, <1>2 DEF CodeInv, CodeSound
<1>4. OneAtATime /\ Registered /\ BringsFirst /\ UsedComplete /\ RestComplete
  BY <1>3 DEF CodeInv, CodeSound
<1>5. OneAtATime'
  BY <1>4 DEF OneAtATime, Goes
<1>6. Registered'
  BY <1>t, <1>v, <1>4 DEF CodeTypes, OneAtATime, Registered, BringsFirst, Goes, Locked, Bringing
<1>b. UsedOk(c)
  BY <1>4 DEF UsedComplete
<1>a. make[c].pc \in Using => make[c].art \in Creates /\ depOf[make[c].art] \in BOOLEAN
  BY <1>t DEF CodeTypes
<1>7. BringsFirst'
  <2> SUFFICES ASSUME NEW d \in Creates, NEW e \in Creates
               PROVE  /\ make'[d].pc \in {"lookup", "files", "register", "meta", "repair", "reload", "rmtree"}
                           => ~make'[d].cached
                      /\ make'[d].pc = "lookup" => ~make'[d].fresh
                      /\ Bringing(d)' /\ make'[d].pc \in Using => make'[d].art = d
                      /\ Bringing(d)' /\ make'[e].ver = make'[d].ver => make'[e].pc # "live"
    BY DEF BringsFirst
  <2>1. CASE d = c
    BY <2>1, <1>t, <1>v, <1>a, <1>b, <1>d, <1>e, <1>4 DEF CodeTypes, Registered, BringsFirst, UsedOk, Complete, Bringing
  <2>2. CASE d # c
    BY <2>2, <1>t, <1>v, <1>d, <1>e, <1>4 DEF CodeTypes, OneAtATime, Registered, BringsFirst, Bringing
  <2> QED
    BY <2>1, <2>2
<1>c. /\ \A d \in Creates : make[d].ver # make[c].ver => UsedOk(d)'
      /\ \A v \in Versions : v # Ver(c) => RestOk(v)'
  <2>1. /\ \A v \in Versions : v # Ver(c) => codes'[v] = codes[v]
        /\ \A x \in Creates : make[x].ver # Ver(c) => depOf'[x] = depOf[x]
    BY <1>t, <1>v DEF CodeTypes
  <2> QED
    BY <2>1, <1>t, <1>v, <1>4, OtherVersions
<1>8. UsedComplete'
  <2>1. UsedOk(c)'
    BY <1>t, <1>v, <1>a, <1>b, <1>d, <1>e, <1>f, <1>4 DEF CodeTypes, Registered, BringsFirst, UsedOk, RestComplete, RestOk, Dir, Bringing,
       Complete, Imports, DiskType, Deps, OneAtATime
  <2>2. ASSUME NEW d \in Creates, d # c /\ make[d].ver = make[c].ver PROVE UsedOk(d)'
    <3>1. UsedOk(d) /\ make'[d] = make[d]
      BY <2>2, <1>e, <1>4 DEF UsedComplete
    <3>2. make[d].pc \notin Making
      BY <2>2, <1>4 DEF OneAtATime
    <3>3. make[d].pc = "live" => Complete(d) /\ make[d].art \in Creates /\ ~Bringing(c) /\ depOf[make[d].art] \in BOOLEAN
                                 /\ codes[Ver(c)] = make[d].art
      <4> SUFFICES ASSUME make[d].pc = "live"
                   PROVE  Complete(d) /\ make[d].art \in Creates /\ ~Bringing(c) /\ depOf[make[d].art] \in BOOLEAN
                          /\ codes[Ver(c)] = make[d].art
        OBVIOUS
      <4>1. Complete(d)
        BY <3>1 DEF UsedOk
      <4>2. make[d].art \in Creates /\ depOf[make[d].art] \in BOOLEAN
        BY <1>t DEF CodeTypes
      <4>3. ~Bringing(c)
        BY <2>2, <1>4 DEF BringsFirst
      <4>4. codes[Ver(c)] = make[d].art
        BY <2>2, <1>4 DEF Registered
      <4> QED
        BY <4>1, <4>2, <4>3, <4>4
    <3>4. make[d].pc = "live" => Complete(d)'
      BY <2>2, <3>1, <3>3, <1>t, <1>v, <1>a, <1>b, <1>d, <1>f, <1>4 DEF UsedOk, Dir, Bringing, BringsFirst, Complete, Imports, Registered, DiskType
    <3> QED
      BY <3>1, <3>2, <3>4 DEF UsedOk
  <2>3. ASSUME NEW d \in Creates PROVE UsedOk(d)'
    BY <2>1, <2>2, <1>c
  <2> QED
    BY <2>3 DEF UsedComplete
<1>9. RestComplete'
  <2>0. PICK v \in Versions : v = Ver(c)
    BY <1>v
  <2>1. RestOk(v)'
    <3> SUFFICES ASSUME codes'[v] # 0, \A d \in Creates : make'[d].ver = v => ~Bringing(d)'
                 PROVE  /\ disk'[v].dir /\ Imports(codes[v])'
                        /\ depOf'[codes'[v]] = (make'[codes'[v]].deps # "none")
      BY DEF RestOk
    <3>1. ~Bringing(c)'
      BY <1>d, <2>0
    <3>2. codes[Ver(c)] # 0 => codes[Ver(c)] \in Creates /\ make[codes[Ver(c)]].ver = make[c].ver
                               /\ make[codes[Ver(c)]].deps = make[c].deps /\ depOf[codes[Ver(c)]] \in BOOLEAN
      <4>1. codes[Ver(c)] # 0 => codes[Ver(c)] \in Creates /\ make[codes[Ver(c)]].ver = make[c].ver
        BY <1>t, <1>v, OfVersion
      <4> QED
        BY <4>1, <1>t DEF CodeTypes
    <3>4. make[c].pc \in Using \cup {"live"} => codes[Ver(c)] = make[c].art
      BY <1>4 DEF Registered
    <3>5. (make[c].pc \in Using /\ make[c].cached) \/ make[c].pc \in {"executor", "live"} => Complete(c)
      BY <1>b DEF UsedOk
    <3>6. make[c].pc = "live" => ~Bringing(c)
      BY DEF Bringing
    <3>0. \A d \in Creates : make'[d].ver = v => ~Bringing(d)'
      OBVIOUS
    <3>3. ~Bringing(c) /\ codes[Ver(c)] # 0 => disk[Ver(c)].dir /\ Imports(codes[Ver(c)])
                                             /\ depOf[codes[Ver(c)]] = (make[c].deps # "none")
      <4>1. RestOk(Ver(c))
        BY <1>4, <1>v DEF RestComplete
      <4>2. \A d \in Creates : d # c /\ make[d].ver = Ver(c) => ~Bringing(d)
        <5> SUFFICES ASSUME NEW d \in Creates, d # c, make[d].ver = Ver(c) PROVE ~Bringing(d)
          OBVIOUS
        <5>1. make'[d] = make[d] /\ ~Bringing(d)'
          BY <1>d, <1>e, <2>0, <3>0
        <5> QED
          BY <5>1 DEF Bringing
      <4> QED
        BY <4>1, <4>2, <3>2 DEF RestOk
    <3>7. /\ disk[Ver(c)].dir /\ Imports(codes[Ver(c)])
          /\ depOf[codes[Ver(c)]] = (make[c].deps # "none")
      <4>1. codes[Ver(c)] # 0
        BY <2>0
      <4>2. CASE ~Bringing(c)
        BY <4>1, <4>2, <3>3
      <4>3. CASE Bringing(c)
        <5>1. Complete(c) /\ codes[Ver(c)] = make[c].art
          BY <4>3, <3>1, <3>4, <3>5, <3>6, <1>e, <1>t DEF Bringing
        <5> QED
          BY <4>1, <5>1, <3>2 DEF Complete, Imports
      <4> QED
        BY <4>2, <4>3
    <3>8. disk'[Ver(c)].dir /\ disk'[Ver(c)].deps = disk[Ver(c)].deps
      BY <3>7 DEF Dir
    <3>9. depOf'[codes[Ver(c)]] = (make[c].deps # "none")
      BY <3>7, <3>2, <3>4, <1>t, <2>0 DEF CodeTypes
    <3>10. PICK a \in Creates : a = codes[Ver(c)] /\ a # 0
      BY <3>2, <2>0
    <3>11. /\ codes'[v] = a /\ disk'[v].dir /\ disk'[v].deps = disk[v].deps
           /\ depOf'[a] = (make[a].deps # "none") /\ Imports(a)
      BY <2>0, <3>2, <3>7, <3>8, <3>9, <3>10
    <3>12. make'[a].deps = make[a].deps /\ make'[a].ver = v /\ make[a].ver = v
      BY <2>0, <3>2, <3>10, <1>d
    <3>13. Imports(a)'
      BY <3>11, <3>12 DEF Imports
    <3>14. Imports(codes[v])'
      BY <3>11, <3>13 DEF Imports
    <3> QED
      BY <3>11, <3>12, <3>14
  <2> QED
    BY <2>0, <2>1, <1>c DEF RestComplete
<1> QED
  BY <1>5, <1>6, <1>7, <1>8, <1>9

\* The trial load lacks a module.
LEMMA LacksKeeps ==
  ASSUME CodeInv, NEW c \in Creates, At(c, "load"), ~Imports(c),
         Goes(c, "repair", make[c].art, make[c].cached, make[c].fresh),
         Dir(Ver(c), disk[Ver(c)].dir, disk[Ver(c)].deps), UNCHANGED <<codes, depOf, wlock, rebuild, overlap>>
  PROVE  CodeInv'
<1> USE NodeCodeAssumption DEF At, Ver, Making, Using
<1>t. CodeTypes /\ Locked /\ make \in [Creates -> MakeType]
  BY DEF CodeInv, CodeTypes
<1>v. Ver(c) \in Versions /\ Ver(c) # 0
  BY <1>t DEF CodeTypes, MakeType
<1>d. make' \in [Creates -> MakeType] /\ \A d \in Creates : make'[d].ver = make[d].ver /\ make'[d].deps = make[d].deps
  BY DEF Goes
<1>e. /\ \A d \in Creates : d # c => make'[d] = make[d]
      /\ make'[c].pc = "repair" /\ make'[c].art = make[c].art /\ make'[c].cached = make[c].cached /\ make'[c].fresh = make[c].fresh
  BY DEF Goes
<1>f. \A d \in Creates : make[d] \in MakeType /\ make'[d] \in MakeType /\ (make[d].ver \in Versions \/ make[d].pc = "new")
  BY <1>d, <1>t DEF CodeTypes, MakeType
<1>1. CodeTypes'
  <2>1. /\ codes' \in [Versions -> Creates \cup {0}] /\ disk' \in [Versions -> DiskType]
        /\ depOf' \in [Creates -> BOOLEAN] /\ wlock' \in [Versions -> Creates \cup {0}]
    BY <1>t, <1>v DEF CodeTypes, Dir
  <2>2. "repair" \in Using \cup {"live"} => make[c].art \in Creates /\ make[make[c].art].ver = make[c].ver
    BY <1>t, <1>v DEF CodeTypes
  <2>3. \A v \in Versions : codes'[v] # 0 => make[codes'[v]].ver = v
    BY <1>t, <1>v DEF CodeTypes
  <2>4. make[c].pc # "new" /\ "repair" # "new"
    BY <1>t
  <2> QED
    BY <2>1, <2>2, <2>3, <2>4, <1>t, GoesTypes
<1>2. Locked'
  BY <1>t, <1>v DEF CodeTypes, Locked, Goes
<1>3. SUFFICES ASSUME ~overlap' PROVE OneAtATime' /\ Registered' /\ BringsFirst' /\ UsedComplete' /\ RestComplete'
  BY <1>1, <1>2 DEF CodeInv, CodeSound
<1>4. OneAtATime /\ Registered /\ BringsFirst /\ UsedComplete /\ RestComplete
  BY <1>3 DEF CodeInv, CodeSound
<1>5. OneAtATime'
  BY <1>4 DEF OneAtATime, Goes
<1>6. Registered'
  BY <1>t, <1>v, <1>4 DEF CodeTypes, OneAtATime, Registered, BringsFirst, Goes, Locked, Bringing
<1>b. UsedOk(c)
  BY <1>4 DEF UsedComplete
<1>a. make[c].pc \in Using => make[c].art \in Creates /\ depOf[make[c].art] \in BOOLEAN
  BY <1>t DEF CodeTypes
<1>7. BringsFirst'
  <2> SUFFICES ASSUME NEW d \in Creates, NEW e \in Creates
               PROVE  /\ make'[d].pc \in {"lookup", "files", "register", "meta", "repair", "reload", "rmtree"}
                           => ~make'[d].cached
                      /\ make'[d].pc = "lookup" => ~make'[d].fresh
                      /\ Bringing(d)' /\ make'[d].pc \in Using => make'[d].art = d
                      /\ Bringing(d)' /\ make'[e].ver = make'[d].ver => make'[e].pc # "live"
    BY DEF BringsFirst
  <2>1. CASE d = c
    BY <2>1, <1>t, <1>v, <1>a, <1>b, <1>d, <1>e, <1>4 DEF CodeTypes, Registered, BringsFirst, UsedOk, Complete, Bringing
  <2>2. CASE d # c
    BY <2>2, <1>t, <1>v, <1>d, <1>e, <1>4 DEF CodeTypes, OneAtATime, Registered, BringsFirst, Bringing
  <2> QED
    BY <2>1, <2>2
<1>c. /\ \A d \in Creates : make[d].ver # make[c].ver => UsedOk(d)'
      /\ \A v \in Versions : v # Ver(c) => RestOk(v)'
  <2>1. /\ \A v \in Versions : v # Ver(c) => codes'[v] = codes[v]
        /\ \A x \in Creates : make[x].ver # Ver(c) => depOf'[x] = depOf[x]
    BY <1>t, <1>v DEF CodeTypes
  <2> QED
    BY <2>1, <1>t, <1>v, <1>4, OtherVersions
<1>8. UsedComplete'
  <2>1. UsedOk(c)'
    BY <1>t, <1>v, <1>a, <1>b, <1>d, <1>e, <1>f, <1>4 DEF CodeTypes, Registered, BringsFirst, UsedOk, RestComplete, RestOk, Dir, Bringing,
       Complete, Imports, DiskType, Deps, OneAtATime
  <2>2. ASSUME NEW d \in Creates, d # c /\ make[d].ver = make[c].ver PROVE UsedOk(d)'
    <3>1. UsedOk(d) /\ make'[d] = make[d]
      BY <2>2, <1>e, <1>4 DEF UsedComplete
    <3>2. make[d].pc \notin Making
      BY <2>2, <1>4 DEF OneAtATime
    <3>3. make[d].pc = "live" => Complete(d) /\ make[d].art \in Creates /\ ~Bringing(c) /\ depOf[make[d].art] \in BOOLEAN
                                 /\ codes[Ver(c)] = make[d].art
      <4> SUFFICES ASSUME make[d].pc = "live"
                   PROVE  Complete(d) /\ make[d].art \in Creates /\ ~Bringing(c) /\ depOf[make[d].art] \in BOOLEAN
                          /\ codes[Ver(c)] = make[d].art
        OBVIOUS
      <4>1. Complete(d)
        BY <3>1 DEF UsedOk
      <4>2. make[d].art \in Creates /\ depOf[make[d].art] \in BOOLEAN
        BY <1>t DEF CodeTypes
      <4>3. ~Bringing(c)
        BY <2>2, <1>4 DEF BringsFirst
      <4>4. codes[Ver(c)] = make[d].art
        BY <2>2, <1>4 DEF Registered
      <4> QED
        BY <4>1, <4>2, <4>3, <4>4
    <3>4. make[d].pc = "live" => Complete(d)'
      BY <2>2, <3>1, <3>3, <1>t, <1>v, <1>a, <1>b, <1>d, <1>f, <1>4 DEF UsedOk, Dir, Bringing, BringsFirst, Complete, Imports, Registered, DiskType
    <3> QED
      BY <3>1, <3>2, <3>4 DEF UsedOk
  <2>3. ASSUME NEW d \in Creates PROVE UsedOk(d)'
    BY <2>1, <2>2, <1>c
  <2> QED
    BY <2>3 DEF UsedComplete
<1>9. RestComplete'
  <2>0. PICK v \in Versions : v = Ver(c)
    BY <1>v
  <2>1. RestOk(v)'
    <3> SUFFICES ASSUME codes'[v] # 0, \A d \in Creates : make'[d].ver = v => ~Bringing(d)'
                 PROVE  /\ disk'[v].dir /\ Imports(codes[v])'
                        /\ depOf'[codes'[v]] = (make'[codes'[v]].deps # "none")
      BY DEF RestOk
    <3>1. ~Bringing(c)'
      BY <1>d, <2>0
    <3>2. codes[Ver(c)] # 0 => codes[Ver(c)] \in Creates /\ make[codes[Ver(c)]].ver = make[c].ver
                               /\ make[codes[Ver(c)]].deps = make[c].deps /\ depOf[codes[Ver(c)]] \in BOOLEAN
      <4>1. codes[Ver(c)] # 0 => codes[Ver(c)] \in Creates /\ make[codes[Ver(c)]].ver = make[c].ver
        BY <1>t, <1>v, OfVersion
      <4> QED
        BY <4>1, <1>t DEF CodeTypes
    <3>4. make[c].pc \in Using \cup {"live"} => codes[Ver(c)] = make[c].art
      BY <1>4 DEF Registered
    <3>5. (make[c].pc \in Using /\ make[c].cached) \/ make[c].pc \in {"executor", "live"} => Complete(c)
      BY <1>b DEF UsedOk
    <3>6. make[c].pc = "live" => ~Bringing(c)
      BY DEF Bringing
    <3>0. \A d \in Creates : make'[d].ver = v => ~Bringing(d)'
      OBVIOUS
    <3>3. ~Bringing(c) /\ codes[Ver(c)] # 0 => disk[Ver(c)].dir /\ Imports(codes[Ver(c)])
                                             /\ depOf[codes[Ver(c)]] = (make[c].deps # "none")
      <4>1. RestOk(Ver(c))
        BY <1>4, <1>v DEF RestComplete
      <4>2. \A d \in Creates : d # c /\ make[d].ver = Ver(c) => ~Bringing(d)
        <5> SUFFICES ASSUME NEW d \in Creates, d # c, make[d].ver = Ver(c) PROVE ~Bringing(d)
          OBVIOUS
        <5>1. make'[d] = make[d] /\ ~Bringing(d)'
          BY <1>d, <1>e, <2>0, <3>0
        <5> QED
          BY <5>1 DEF Bringing
      <4> QED
        BY <4>1, <4>2, <3>2 DEF RestOk
    <3> QED
      BY <2>0, <3>1, <3>2, <3>3, <3>4, <3>5, <3>6, <1>t, <1>v, <1>a, <1>b, <1>d, <1>e, <1>4 DEF Registered, BringsFirst, UsedOk, Dir, Bringing,
         Complete, Imports, CodeTypes
  <2> QED
    BY <2>0, <2>1, <1>c DEF RestComplete
<1> QED
  BY <1>5, <1>6, <1>7, <1>8, <1>9

\* The dependencies are installed again.
LEMMA RepairsKeeps ==
  ASSUME CodeInv, NEW c \in Creates, At(c, "repair"),
         Goes(c, "reload", make[c].art, make[c].cached, make[c].fresh),
         Dir(Ver(c), TRUE, TRUE),
         UNCHANGED <<codes, depOf, wlock, rebuild, overlap>>
  PROVE  CodeInv'
<1> USE NodeCodeAssumption DEF At, Ver, Making, Using
<1>t. CodeTypes /\ Locked /\ make \in [Creates -> MakeType]
  BY DEF CodeInv, CodeTypes
<1>v. Ver(c) \in Versions /\ Ver(c) # 0
  BY <1>t DEF CodeTypes, MakeType
<1>d. make' \in [Creates -> MakeType] /\ \A d \in Creates : make'[d].ver = make[d].ver /\ make'[d].deps = make[d].deps
  BY DEF Goes
<1>e. /\ \A d \in Creates : d # c => make'[d] = make[d]
      /\ make'[c].pc = "reload" /\ make'[c].art = make[c].art /\ make'[c].cached = make[c].cached /\ make'[c].fresh = make[c].fresh
  BY DEF Goes
<1>f. \A d \in Creates : make[d] \in MakeType /\ make'[d] \in MakeType /\ (make[d].ver \in Versions \/ make[d].pc = "new")
  BY <1>d, <1>t DEF CodeTypes, MakeType
<1>1. CodeTypes'
  <2>1. /\ codes' \in [Versions -> Creates \cup {0}] /\ disk' \in [Versions -> DiskType]
        /\ depOf' \in [Creates -> BOOLEAN] /\ wlock' \in [Versions -> Creates \cup {0}]
    BY <1>t, <1>v DEF CodeTypes, Dir
  <2>2. "reload" \in Using \cup {"live"} => make[c].art \in Creates /\ make[make[c].art].ver = make[c].ver
    BY <1>t, <1>v DEF CodeTypes
  <2>3. \A v \in Versions : codes'[v] # 0 => make[codes'[v]].ver = v
    BY <1>t, <1>v DEF CodeTypes
  <2>4. make[c].pc # "new" /\ "reload" # "new"
    BY <1>t
  <2> QED
    BY <2>1, <2>2, <2>3, <2>4, <1>t, GoesTypes
<1>2. Locked'
  BY <1>t, <1>v DEF CodeTypes, Locked, Goes
<1>3. SUFFICES ASSUME ~overlap' PROVE OneAtATime' /\ Registered' /\ BringsFirst' /\ UsedComplete' /\ RestComplete'
  BY <1>1, <1>2 DEF CodeInv, CodeSound
<1>4. OneAtATime /\ Registered /\ BringsFirst /\ UsedComplete /\ RestComplete
  BY <1>3 DEF CodeInv, CodeSound
<1>5. OneAtATime'
  BY <1>4 DEF OneAtATime, Goes
<1>6. Registered'
  BY <1>t, <1>v, <1>4 DEF CodeTypes, OneAtATime, Registered, BringsFirst, Goes, Locked, Bringing
<1>b. UsedOk(c)
  BY <1>4 DEF UsedComplete
<1>a. make[c].pc \in Using => make[c].art \in Creates /\ depOf[make[c].art] \in BOOLEAN
  BY <1>t DEF CodeTypes
<1>7. BringsFirst'
  <2> SUFFICES ASSUME NEW d \in Creates, NEW e \in Creates
               PROVE  /\ make'[d].pc \in {"lookup", "files", "register", "meta", "repair", "reload", "rmtree"}
                           => ~make'[d].cached
                      /\ make'[d].pc = "lookup" => ~make'[d].fresh
                      /\ Bringing(d)' /\ make'[d].pc \in Using => make'[d].art = d
                      /\ Bringing(d)' /\ make'[e].ver = make'[d].ver => make'[e].pc # "live"
    BY DEF BringsFirst
  <2>1. CASE d = c
    BY <2>1, <1>t, <1>v, <1>a, <1>b, <1>d, <1>e, <1>4 DEF CodeTypes, Registered, BringsFirst, UsedOk, Complete, Bringing
  <2>2. CASE d # c
    BY <2>2, <1>t, <1>v, <1>d, <1>e, <1>4 DEF CodeTypes, OneAtATime, Registered, BringsFirst, Bringing
  <2> QED
    BY <2>1, <2>2
<1>c. /\ \A d \in Creates : make[d].ver # make[c].ver => UsedOk(d)'
      /\ \A v \in Versions : v # Ver(c) => RestOk(v)'
  <2>1. /\ \A v \in Versions : v # Ver(c) => codes'[v] = codes[v]
        /\ \A x \in Creates : make[x].ver # Ver(c) => depOf'[x] = depOf[x]
    BY <1>t, <1>v DEF CodeTypes
  <2> QED
    BY <2>1, <1>t, <1>v, <1>4, OtherVersions
<1>8. UsedComplete'
  <2>1. UsedOk(c)'
    BY <1>t, <1>v, <1>a, <1>b, <1>d, <1>e, <1>f, <1>4 DEF CodeTypes, Registered, BringsFirst, UsedOk, RestComplete, RestOk, Dir, Bringing,
       Complete, Imports, DiskType, Deps, OneAtATime
  <2>2. ASSUME NEW d \in Creates, d # c /\ make[d].ver = make[c].ver PROVE UsedOk(d)'
    <3>1. UsedOk(d) /\ make'[d] = make[d]
      BY <2>2, <1>e, <1>4 DEF UsedComplete
    <3>2. make[d].pc \notin Making
      BY <2>2, <1>4 DEF OneAtATime
    <3>3. make[d].pc = "live" => Complete(d) /\ make[d].art \in Creates /\ ~Bringing(c) /\ depOf[make[d].art] \in BOOLEAN
                                 /\ codes[Ver(c)] = make[d].art
      <4> SUFFICES ASSUME make[d].pc = "live"
                   PROVE  Complete(d) /\ make[d].art \in Creates /\ ~Bringing(c) /\ depOf[make[d].art] \in BOOLEAN
                          /\ codes[Ver(c)] = make[d].art
        OBVIOUS
      <4>1. Complete(d)
        BY <3>1 DEF UsedOk
      <4>2. make[d].art \in Creates /\ depOf[make[d].art] \in BOOLEAN
        BY <1>t DEF CodeTypes
      <4>3. ~Bringing(c)
        BY <2>2, <1>4 DEF BringsFirst
      <4>4. codes[Ver(c)] = make[d].art
        BY <2>2, <1>4 DEF Registered
      <4> QED
        BY <4>1, <4>2, <4>3, <4>4
    <3>4. make[d].pc = "live" => Complete(d)'
      BY <2>2, <3>1, <3>3, <1>t, <1>v, <1>a, <1>b, <1>d, <1>f, <1>4 DEF UsedOk, Dir, Bringing, BringsFirst, Complete, Imports, Registered, DiskType
    <3> QED
      BY <3>1, <3>2, <3>4 DEF UsedOk
  <2>3. ASSUME NEW d \in Creates PROVE UsedOk(d)'
    BY <2>1, <2>2, <1>c
  <2> QED
    BY <2>3 DEF UsedComplete
<1>9. RestComplete'
  <2>0. PICK v \in Versions : v = Ver(c)
    BY <1>v
  <2>1. RestOk(v)'
    <3> SUFFICES ASSUME codes'[v] # 0, \A d \in Creates : make'[d].ver = v => ~Bringing(d)'
                 PROVE  /\ disk'[v].dir /\ Imports(codes[v])'
                        /\ depOf'[codes'[v]] = (make'[codes'[v]].deps # "none")
      BY DEF RestOk
    <3>1. ~Bringing(c)'
      BY <1>d, <2>0
    <3>2. codes[Ver(c)] # 0 => codes[Ver(c)] \in Creates /\ make[codes[Ver(c)]].ver = make[c].ver
                               /\ make[codes[Ver(c)]].deps = make[c].deps /\ depOf[codes[Ver(c)]] \in BOOLEAN
      <4>1. codes[Ver(c)] # 0 => codes[Ver(c)] \in Creates /\ make[codes[Ver(c)]].ver = make[c].ver
        BY <1>t, <1>v, OfVersion
      <4> QED
        BY <4>1, <1>t DEF CodeTypes
    <3>4. make[c].pc \in Using \cup {"live"} => codes[Ver(c)] = make[c].art
      BY <1>4 DEF Registered
    <3>5. (make[c].pc \in Using /\ make[c].cached) \/ make[c].pc \in {"executor", "live"} => Complete(c)
      BY <1>b DEF UsedOk
    <3>6. make[c].pc = "live" => ~Bringing(c)
      BY DEF Bringing
    <3>0. \A d \in Creates : make'[d].ver = v => ~Bringing(d)'
      OBVIOUS
    <3>3. ~Bringing(c) /\ codes[Ver(c)] # 0 => disk[Ver(c)].dir /\ Imports(codes[Ver(c)])
                                             /\ depOf[codes[Ver(c)]] = (make[c].deps # "none")
      <4>1. RestOk(Ver(c))
        BY <1>4, <1>v DEF RestComplete
      <4>2. \A d \in Creates : d # c /\ make[d].ver = Ver(c) => ~Bringing(d)
        <5> SUFFICES ASSUME NEW d \in Creates, d # c, make[d].ver = Ver(c) PROVE ~Bringing(d)
          OBVIOUS
        <5>1. make'[d] = make[d] /\ ~Bringing(d)'
          BY <1>d, <1>e, <2>0, <3>0
        <5> QED
          BY <5>1 DEF Bringing
      <4> QED
        BY <4>1, <4>2, <3>2 DEF RestOk
    <3> QED
      BY <2>0, <3>1, <3>2, <3>3, <3>4, <3>5, <3>6, <1>t, <1>v, <1>a, <1>b, <1>d, <1>e, <1>4 DEF Registered, BringsFirst, UsedOk, Dir, Bringing,
         Complete, Imports, CodeTypes
  <2> QED
    BY <2>0, <2>1, <1>c DEF RestComplete
<1> QED
  BY <1>5, <1>6, <1>7, <1>8, <1>9

\* The code is not usable; what has been installed for it is removed, or stays.
LEMMA FailsKeeps ==
  ASSUME CodeInv, NEW c \in Creates, make[c].pc \in {"install", "load", "repair", "reload", "executor"},
         Goes(c, "drop", make[c].art, make[c].cached, make[c].fresh),
         NEW gone \in BOOLEAN, gone => make[c].fresh \/ make[c].pc \in {"repair", "reload"},
         Dir(Ver(c), disk[Ver(c)].dir, disk[Ver(c)].deps /\ ~gone),
         UNCHANGED <<codes, depOf, wlock, rebuild, overlap>>
  PROVE  CodeInv'
<1> USE NodeCodeAssumption DEF At, Ver, Making, Using
<1>t. CodeTypes /\ Locked /\ make \in [Creates -> MakeType]
  BY DEF CodeInv, CodeTypes
<1>v. Ver(c) \in Versions /\ Ver(c) # 0
  BY <1>t DEF CodeTypes, MakeType
<1>d. make' \in [Creates -> MakeType] /\ \A d \in Creates : make'[d].ver = make[d].ver /\ make'[d].deps = make[d].deps
  BY DEF Goes
<1>e. /\ \A d \in Creates : d # c => make'[d] = make[d]
      /\ make'[c].pc = "drop" /\ make'[c].art = make[c].art /\ make'[c].cached = make[c].cached /\ make'[c].fresh = make[c].fresh
  BY DEF Goes
<1>f. \A d \in Creates : make[d] \in MakeType /\ make'[d] \in MakeType /\ (make[d].ver \in Versions \/ make[d].pc = "new")
  BY <1>d, <1>t DEF CodeTypes, MakeType
<1>1. CodeTypes'
  <2>1. /\ codes' \in [Versions -> Creates \cup {0}] /\ disk' \in [Versions -> DiskType]
        /\ depOf' \in [Creates -> BOOLEAN] /\ wlock' \in [Versions -> Creates \cup {0}]
    BY <1>t, <1>v DEF CodeTypes, Dir
  <2>2. "drop" \in Using \cup {"live"} => make[c].art \in Creates /\ make[make[c].art].ver = make[c].ver
    BY <1>t, <1>v DEF CodeTypes
  <2>3. \A v \in Versions : codes'[v] # 0 => make[codes'[v]].ver = v
    BY <1>t, <1>v DEF CodeTypes
  <2>4. make[c].pc # "new" /\ "drop" # "new"
    BY <1>t
  <2> QED
    BY <2>1, <2>2, <2>3, <2>4, <1>t, GoesTypes
<1>2. Locked'
  BY <1>t, <1>v DEF CodeTypes, Locked, Goes
<1>3. SUFFICES ASSUME ~overlap' PROVE OneAtATime' /\ Registered' /\ BringsFirst' /\ UsedComplete' /\ RestComplete'
  BY <1>1, <1>2 DEF CodeInv, CodeSound
<1>4. OneAtATime /\ Registered /\ BringsFirst /\ UsedComplete /\ RestComplete
  BY <1>3 DEF CodeInv, CodeSound
<1>5. OneAtATime'
  BY <1>4 DEF OneAtATime, Goes
<1>6. Registered'
  BY <1>t, <1>v, <1>4 DEF CodeTypes, OneAtATime, Registered, BringsFirst, Goes, Locked, Bringing
<1>b. UsedOk(c)
  BY <1>4 DEF UsedComplete
<1>a. make[c].pc \in Using => make[c].art \in Creates /\ depOf[make[c].art] \in BOOLEAN
  BY <1>t DEF CodeTypes
<1>7. BringsFirst'
  <2> SUFFICES ASSUME NEW d \in Creates, NEW e \in Creates
               PROVE  /\ make'[d].pc \in {"lookup", "files", "register", "meta", "repair", "reload", "rmtree"}
                           => ~make'[d].cached
                      /\ make'[d].pc = "lookup" => ~make'[d].fresh
                      /\ Bringing(d)' /\ make'[d].pc \in Using => make'[d].art = d
                      /\ Bringing(d)' /\ make'[e].ver = make'[d].ver => make'[e].pc # "live"
    BY DEF BringsFirst
  <2>1. CASE d = c
    BY <2>1, <1>t, <1>v, <1>a, <1>b, <1>d, <1>e, <1>4 DEF CodeTypes, Registered, BringsFirst, UsedOk, Complete, Bringing
  <2>2. CASE d # c
    BY <2>2, <1>t, <1>v, <1>d, <1>e, <1>4 DEF CodeTypes, OneAtATime, Registered, BringsFirst, Bringing
  <2> QED
    BY <2>1, <2>2
<1>c. /\ \A d \in Creates : make[d].ver # make[c].ver => UsedOk(d)'
      /\ \A v \in Versions : v # Ver(c) => RestOk(v)'
  <2>1. /\ \A v \in Versions : v # Ver(c) => codes'[v] = codes[v]
        /\ \A x \in Creates : make[x].ver # Ver(c) => depOf'[x] = depOf[x]
    BY <1>t, <1>v DEF CodeTypes
  <2> QED
    BY <2>1, <1>t, <1>v, <1>4, OtherVersions
<1>8. UsedComplete'
  <2>1. UsedOk(c)'
    BY <1>t, <1>v, <1>a, <1>b, <1>d, <1>e, <1>f, <1>4 DEF CodeTypes, Registered, BringsFirst, UsedOk, RestComplete, RestOk, Dir, Bringing,
       Complete, Imports, DiskType, Deps, OneAtATime
  <2>2. ASSUME NEW d \in Creates, d # c /\ make[d].ver = make[c].ver PROVE UsedOk(d)'
    <3>1. UsedOk(d) /\ make'[d] = make[d]
      BY <2>2, <1>e, <1>4 DEF UsedComplete
    <3>2. make[d].pc \notin Making
      BY <2>2, <1>4 DEF OneAtATime
    <3>3. make[d].pc = "live" => Complete(d) /\ make[d].art \in Creates /\ ~Bringing(c) /\ depOf[make[d].art] \in BOOLEAN
                                 /\ codes[Ver(c)] = make[d].art
      <4> SUFFICES ASSUME make[d].pc = "live"
                   PROVE  Complete(d) /\ make[d].art \in Creates /\ ~Bringing(c) /\ depOf[make[d].art] \in BOOLEAN
                          /\ codes[Ver(c)] = make[d].art
        OBVIOUS
      <4>1. Complete(d)
        BY <3>1 DEF UsedOk
      <4>2. make[d].art \in Creates /\ depOf[make[d].art] \in BOOLEAN
        BY <1>t DEF CodeTypes
      <4>3. ~Bringing(c)
        BY <2>2, <1>4 DEF BringsFirst
      <4>4. codes[Ver(c)] = make[d].art
        BY <2>2, <1>4 DEF Registered
      <4> QED
        BY <4>1, <4>2, <4>3, <4>4
    <3>4. make[d].pc = "live" => Complete(d)'
      BY <2>2, <3>1, <3>3, <1>t, <1>v, <1>a, <1>b, <1>d, <1>f, <1>4 DEF UsedOk, Dir, Bringing, BringsFirst, Complete, Imports, Registered, DiskType
    <3> QED
      BY <3>1, <3>2, <3>4 DEF UsedOk
  <2>3. ASSUME NEW d \in Creates PROVE UsedOk(d)'
    BY <2>1, <2>2, <1>c
  <2> QED
    BY <2>3 DEF UsedComplete
<1>9. RestComplete'
  <2>0. PICK v \in Versions : v = Ver(c)
    BY <1>v
  <2>1. RestOk(v)'
    <3> SUFFICES ASSUME codes'[v] # 0, \A d \in Creates : make'[d].ver = v => ~Bringing(d)'
                 PROVE  /\ disk'[v].dir /\ Imports(codes[v])'
                        /\ depOf'[codes'[v]] = (make'[codes'[v]].deps # "none")
      BY DEF RestOk
    <3>1. ~Bringing(c)'
      BY <1>d, <2>0
    <3>2. codes[Ver(c)] # 0 => codes[Ver(c)] \in Creates /\ make[codes[Ver(c)]].ver = make[c].ver
                               /\ make[codes[Ver(c)]].deps = make[c].deps /\ depOf[codes[Ver(c)]] \in BOOLEAN
      <4>1. codes[Ver(c)] # 0 => codes[Ver(c)] \in Creates /\ make[codes[Ver(c)]].ver = make[c].ver
        BY <1>t, <1>v, OfVersion
      <4> QED
        BY <4>1, <1>t DEF CodeTypes
    <3>4. make[c].pc \in Using \cup {"live"} => codes[Ver(c)] = make[c].art
      BY <1>4 DEF Registered
    <3>5. (make[c].pc \in Using /\ make[c].cached) \/ make[c].pc \in {"executor", "live"} => Complete(c)
      BY <1>b DEF UsedOk
    <3>6. make[c].pc = "live" => ~Bringing(c)
      BY DEF Bringing
    <3>0. \A d \in Creates : make'[d].ver = v => ~Bringing(d)'
      OBVIOUS
    <3>3. ~Bringing(c) /\ codes[Ver(c)] # 0 => disk[Ver(c)].dir /\ Imports(codes[Ver(c)])
                                             /\ depOf[codes[Ver(c)]] = (make[c].deps # "none")
      <4>1. RestOk(Ver(c))
        BY <1>4, <1>v DEF RestComplete
      <4>2. \A d \in Creates : d # c /\ make[d].ver = Ver(c) => ~Bringing(d)
        <5> SUFFICES ASSUME NEW d \in Creates, d # c, make[d].ver = Ver(c) PROVE ~Bringing(d)
          OBVIOUS
        <5>1. make'[d] = make[d] /\ ~Bringing(d)'
          BY <1>d, <1>e, <2>0, <3>0
        <5> QED
          BY <5>1 DEF Bringing
      <4> QED
        BY <4>1, <4>2, <3>2 DEF RestOk
    <3>7. make[c].cached /\ ~make[c].fresh /\ make[c].pc \notin {"repair", "reload"}
      BY <3>1, <1>b, <1>e, <1>4, <1>t DEF Bringing, BringsFirst, UsedOk, CodeTypes, MakeType
    <3>8. ~Bringing(c) /\ ~gone
      BY <3>7 DEF Bringing
    <3>10. PICK a \in Creates : a = codes[Ver(c)] /\ a # 0
      BY <3>2, <2>0
    <3>11. /\ disk[v].dir /\ Imports(a) /\ depOf[a] = (make[a].deps # "none")
           /\ make[a].ver = v /\ make[a].deps = make[c].deps
      BY <3>8, <3>3, <3>2, <3>10, <2>0
    <3>12. /\ codes'[v] = a /\ depOf'[a] = depOf[a] /\ make'[a].deps = make[a].deps /\ make'[a].ver = v
           /\ disk'[v].dir = disk[v].dir /\ disk'[v].deps = (disk[v].deps /\ ~gone)
      BY <3>10, <3>11, <2>0, <1>d DEF Dir
    <3>13. disk'[v].dir /\ (disk[v].deps => disk'[v].deps)
      BY <3>11, <3>12, <3>8
    <3>14. Imports(a)'
      BY <3>11, <3>12, <3>13 DEF Imports
    <3>15. Imports(codes[v])'
      BY <3>12, <3>14 DEF Imports
    <3> QED
      BY <3>11, <3>12, <3>13, <3>15
  <2> QED
    BY <2>0, <2>1, <1>c DEF RestComplete
<1> QED
  BY <1>5, <1>6, <1>7, <1>8, <1>9

\* The service or pool is there.
LEMMA StartsKeeps ==
  ASSUME CodeInv, NEW c \in Creates, At(c, "executor"),
         Goes(c, "live", make[c].art, make[c].cached, make[c].fresh),
         Dir(Ver(c), disk[Ver(c)].dir, disk[Ver(c)].deps), UNCHANGED <<codes, depOf, wlock, rebuild, overlap>>
  PROVE  CodeInv'
<1> USE NodeCodeAssumption DEF At, Ver, Making, Using
<1>t. CodeTypes /\ Locked /\ make \in [Creates -> MakeType]
  BY DEF CodeInv, CodeTypes
<1>v. Ver(c) \in Versions /\ Ver(c) # 0
  BY <1>t DEF CodeTypes, MakeType
<1>d. make' \in [Creates -> MakeType] /\ \A d \in Creates : make'[d].ver = make[d].ver /\ make'[d].deps = make[d].deps
  BY DEF Goes
<1>e. /\ \A d \in Creates : d # c => make'[d] = make[d]
      /\ make'[c].pc = "live" /\ make'[c].art = make[c].art /\ make'[c].cached = make[c].cached /\ make'[c].fresh = make[c].fresh
  BY DEF Goes
<1>f. \A d \in Creates : make[d] \in MakeType /\ make'[d] \in MakeType /\ (make[d].ver \in Versions \/ make[d].pc = "new")
  BY <1>d, <1>t DEF CodeTypes, MakeType
<1>1. CodeTypes'
  <2>1. /\ codes' \in [Versions -> Creates \cup {0}] /\ disk' \in [Versions -> DiskType]
        /\ depOf' \in [Creates -> BOOLEAN] /\ wlock' \in [Versions -> Creates \cup {0}]
    BY <1>t, <1>v DEF CodeTypes, Dir
  <2>2. "live" \in Using \cup {"live"} => make[c].art \in Creates /\ make[make[c].art].ver = make[c].ver
    BY <1>t, <1>v DEF CodeTypes
  <2>3. \A v \in Versions : codes'[v] # 0 => make[codes'[v]].ver = v
    BY <1>t, <1>v DEF CodeTypes
  <2>4. make[c].pc # "new" /\ "live" # "new"
    BY <1>t
  <2> QED
    BY <2>1, <2>2, <2>3, <2>4, <1>t, GoesTypes
<1>2. Locked'
  BY <1>t, <1>v DEF CodeTypes, Locked, Goes
<1>3. SUFFICES ASSUME ~overlap' PROVE OneAtATime' /\ Registered' /\ BringsFirst' /\ UsedComplete' /\ RestComplete'
  BY <1>1, <1>2 DEF CodeInv, CodeSound
<1>4. OneAtATime /\ Registered /\ BringsFirst /\ UsedComplete /\ RestComplete
  BY <1>3 DEF CodeInv, CodeSound
<1>5. OneAtATime'
  BY <1>4 DEF OneAtATime, Goes
<1>6. Registered'
  BY <1>t, <1>v, <1>4 DEF CodeTypes, OneAtATime, Registered, BringsFirst, Goes, Locked, Bringing
<1>b. UsedOk(c)
  BY <1>4 DEF UsedComplete
<1>a. make[c].pc \in Using => make[c].art \in Creates /\ depOf[make[c].art] \in BOOLEAN
  BY <1>t DEF CodeTypes
<1>7. BringsFirst'
  <2> SUFFICES ASSUME NEW d \in Creates, NEW e \in Creates
               PROVE  /\ make'[d].pc \in {"lookup", "files", "register", "meta", "repair", "reload", "rmtree"}
                           => ~make'[d].cached
                      /\ make'[d].pc = "lookup" => ~make'[d].fresh
                      /\ Bringing(d)' /\ make'[d].pc \in Using => make'[d].art = d
                      /\ Bringing(d)' /\ make'[e].ver = make'[d].ver => make'[e].pc # "live"
    BY DEF BringsFirst
  <2>1. CASE d = c
    BY <2>1, <1>t, <1>v, <1>a, <1>b, <1>d, <1>e, <1>4 DEF CodeTypes, Registered, BringsFirst, UsedOk, Complete, Bringing
  <2>2. CASE d # c
    BY <2>2, <1>t, <1>v, <1>d, <1>e, <1>4 DEF CodeTypes, OneAtATime, Registered, BringsFirst, Bringing
  <2> QED
    BY <2>1, <2>2
<1>c. /\ \A d \in Creates : make[d].ver # make[c].ver => UsedOk(d)'
      /\ \A v \in Versions : v # Ver(c) => RestOk(v)'
  <2>1. /\ \A v \in Versions : v # Ver(c) => codes'[v] = codes[v]
        /\ \A x \in Creates : make[x].ver # Ver(c) => depOf'[x] = depOf[x]
    BY <1>t, <1>v DEF CodeTypes
  <2> QED
    BY <2>1, <1>t, <1>v, <1>4, OtherVersions
<1>8. UsedComplete'
  <2>1. UsedOk(c)'
    BY <1>t, <1>v, <1>a, <1>b, <1>d, <1>e, <1>f, <1>4 DEF CodeTypes, Registered, BringsFirst, UsedOk, RestComplete, RestOk, Dir, Bringing,
       Complete, Imports, DiskType, Deps, OneAtATime
  <2>2. ASSUME NEW d \in Creates, d # c /\ make[d].ver = make[c].ver PROVE UsedOk(d)'
    <3>1. UsedOk(d) /\ make'[d] = make[d]
      BY <2>2, <1>e, <1>4 DEF UsedComplete
    <3>2. make[d].pc \notin Making
      BY <2>2, <1>4 DEF OneAtATime
    <3>3. make[d].pc = "live" => Complete(d) /\ make[d].art \in Creates /\ ~Bringing(c) /\ depOf[make[d].art] \in BOOLEAN
                                 /\ codes[Ver(c)] = make[d].art
      <4> SUFFICES ASSUME make[d].pc = "live"
                   PROVE  Complete(d) /\ make[d].art \in Creates /\ ~Bringing(c) /\ depOf[make[d].art] \in BOOLEAN
                          /\ codes[Ver(c)] = make[d].art
        OBVIOUS
      <4>1. Complete(d)
        BY <3>1 DEF UsedOk
      <4>2. make[d].art \in Creates /\ depOf[make[d].art] \in BOOLEAN
        BY <1>t DEF CodeTypes
      <4>3. ~Bringing(c)
        BY <2>2, <1>4 DEF BringsFirst
      <4>4. codes[Ver(c)] = make[d].art
        BY <2>2, <1>4 DEF Registered
      <4> QED
        BY <4>1, <4>2, <4>3, <4>4
    <3>4. make[d].pc = "live" => Complete(d)'
      BY <2>2, <3>1, <3>3, <1>t, <1>v, <1>a, <1>b, <1>d, <1>f, <1>4 DEF UsedOk, Dir, Bringing, BringsFirst, Complete, Imports, Registered, DiskType
    <3> QED
      BY <3>1, <3>2, <3>4 DEF UsedOk
  <2>3. ASSUME NEW d \in Creates PROVE UsedOk(d)'
    BY <2>1, <2>2, <1>c
  <2> QED
    BY <2>3 DEF UsedComplete
<1>9. RestComplete'
  <2>0. PICK v \in Versions : v = Ver(c)
    BY <1>v
  <2>1. RestOk(v)'
    <3> SUFFICES ASSUME codes'[v] # 0, \A d \in Creates : make'[d].ver = v => ~Bringing(d)'
                 PROVE  /\ disk'[v].dir /\ Imports(codes[v])'
                        /\ depOf'[codes'[v]] = (make'[codes'[v]].deps # "none")
      BY DEF RestOk
    <3>1. ~Bringing(c)'
      BY <1>d, <2>0
    <3>2. codes[Ver(c)] # 0 => codes[Ver(c)] \in Creates /\ make[codes[Ver(c)]].ver = make[c].ver
                               /\ make[codes[Ver(c)]].deps = make[c].deps /\ depOf[codes[Ver(c)]] \in BOOLEAN
      <4>1. codes[Ver(c)] # 0 => codes[Ver(c)] \in Creates /\ make[codes[Ver(c)]].ver = make[c].ver
        BY <1>t, <1>v, OfVersion
      <4> QED
        BY <4>1, <1>t DEF CodeTypes
    <3>4. make[c].pc \in Using \cup {"live"} => codes[Ver(c)] = make[c].art
      BY <1>4 DEF Registered
    <3>5. (make[c].pc \in Using /\ make[c].cached) \/ make[c].pc \in {"executor", "live"} => Complete(c)
      BY <1>b DEF UsedOk
    <3>6. make[c].pc = "live" => ~Bringing(c)
      BY DEF Bringing
    <3>0. \A d \in Creates : make'[d].ver = v => ~Bringing(d)'
      OBVIOUS
    <3>3. ~Bringing(c) /\ codes[Ver(c)] # 0 => disk[Ver(c)].dir /\ Imports(codes[Ver(c)])
                                             /\ depOf[codes[Ver(c)]] = (make[c].deps # "none")
      <4>1. RestOk(Ver(c))
        BY <1>4, <1>v DEF RestComplete
      <4>2. \A d \in Creates : d # c /\ make[d].ver = Ver(c) => ~Bringing(d)
        <5> SUFFICES ASSUME NEW d \in Creates, d # c, make[d].ver = Ver(c) PROVE ~Bringing(d)
          OBVIOUS
        <5>1. make'[d] = make[d] /\ ~Bringing(d)'
          BY <1>d, <1>e, <2>0, <3>0
        <5> QED
          BY <5>1 DEF Bringing
      <4> QED
        BY <4>1, <4>2, <3>2 DEF RestOk
    <3>7. /\ disk[Ver(c)].dir /\ Imports(codes[Ver(c)])
          /\ depOf[codes[Ver(c)]] = (make[c].deps # "none")
      <4>1. codes[Ver(c)] # 0
        BY <2>0
      <4>2. CASE ~Bringing(c)
        BY <4>1, <4>2, <3>3
      <4>3. CASE Bringing(c)
        <5>1. Complete(c) /\ codes[Ver(c)] = make[c].art
          BY <4>3, <3>1, <3>4, <3>5, <3>6, <1>e, <1>t DEF Bringing
        <5> QED
          BY <4>1, <5>1, <3>2 DEF Complete, Imports
      <4> QED
        BY <4>2, <4>3
    <3>8. disk'[Ver(c)].dir /\ disk'[Ver(c)].deps = disk[Ver(c)].deps
      BY <3>7 DEF Dir
    <3>9. depOf'[codes[Ver(c)]] = (make[c].deps # "none")
      BY <3>7, <3>2, <3>4, <1>t, <2>0 DEF CodeTypes
    <3>10. PICK a \in Creates : a = codes[Ver(c)] /\ a # 0
      BY <3>2, <2>0
    <3>11. /\ codes'[v] = a /\ disk'[v].dir /\ disk'[v].deps = disk[v].deps
           /\ depOf'[a] = (make[a].deps # "none") /\ Imports(a)
      BY <2>0, <3>2, <3>7, <3>8, <3>9, <3>10
    <3>12. make'[a].deps = make[a].deps /\ make'[a].ver = v /\ make[a].ver = v
      BY <2>0, <3>2, <3>10, <1>d
    <3>13. Imports(a)'
      BY <3>11, <3>12 DEF Imports
    <3>14. Imports(codes[v])'
      BY <3>11, <3>13 DEF Imports
    <3> QED
      BY <3>11, <3>12, <3>14
  <2> QED
    BY <2>0, <2>1, <1>c DEF RestComplete
<1> QED
  BY <1>5, <1>6, <1>7, <1>8, <1>9

\* A create or a session ends and leaves its code.
LEMMA LeavesKeeps ==
  ASSUME CodeInv, NEW c \in Creates, make[c].pc \in {"executor", "live"} \/ (At(c, "drop") /\ make[c].cached), NEW l \in {"failed", "stopped"},
         Goes(c, l, make[c].art, make[c].cached, make[c].fresh),
         Dir(Ver(c), disk[Ver(c)].dir, disk[Ver(c)].deps), UNCHANGED <<codes, depOf, wlock, rebuild, overlap>>
  PROVE  CodeInv'
<1> USE NodeCodeAssumption DEF At, Ver, Making, Using
<1>t. CodeTypes /\ Locked /\ make \in [Creates -> MakeType]
  BY DEF CodeInv, CodeTypes
<1>v. Ver(c) \in Versions /\ Ver(c) # 0
  BY <1>t DEF CodeTypes, MakeType
<1>d. make' \in [Creates -> MakeType] /\ \A d \in Creates : make'[d].ver = make[d].ver /\ make'[d].deps = make[d].deps
  BY DEF Goes
<1>e. /\ \A d \in Creates : d # c => make'[d] = make[d]
      /\ make'[c].pc = l /\ make'[c].art = make[c].art /\ make'[c].cached = make[c].cached /\ make'[c].fresh = make[c].fresh
  BY DEF Goes
<1>f. \A d \in Creates : make[d] \in MakeType /\ make'[d] \in MakeType /\ (make[d].ver \in Versions \/ make[d].pc = "new")
  BY <1>d, <1>t DEF CodeTypes, MakeType
<1>1. CodeTypes'
  <2>1. /\ codes' \in [Versions -> Creates \cup {0}] /\ disk' \in [Versions -> DiskType]
        /\ depOf' \in [Creates -> BOOLEAN] /\ wlock' \in [Versions -> Creates \cup {0}]
    BY <1>t, <1>v DEF CodeTypes, Dir
  <2>2. l \in Using \cup {"live"} => make[c].art \in Creates /\ make[make[c].art].ver = make[c].ver
    BY <1>t, <1>v DEF CodeTypes
  <2>3. \A v \in Versions : codes'[v] # 0 => make[codes'[v]].ver = v
    BY <1>t, <1>v DEF CodeTypes
  <2>4. make[c].pc # "new" /\ l # "new"
    BY <1>t
  <2> QED
    BY <2>1, <2>2, <2>3, <2>4, <1>t, GoesTypes
<1>2. Locked'
  BY <1>t, <1>v DEF CodeTypes, Locked, Goes
<1>3. SUFFICES ASSUME ~overlap' PROVE OneAtATime' /\ Registered' /\ BringsFirst' /\ UsedComplete' /\ RestComplete'
  BY <1>1, <1>2 DEF CodeInv, CodeSound
<1>4. OneAtATime /\ Registered /\ BringsFirst /\ UsedComplete /\ RestComplete
  BY <1>3 DEF CodeInv, CodeSound
<1>5. OneAtATime'
  BY <1>4 DEF OneAtATime, Goes
<1>6. Registered'
  BY <1>t, <1>v, <1>4 DEF CodeTypes, OneAtATime, Registered, BringsFirst, Goes, Locked, Bringing
<1>b. UsedOk(c)
  BY <1>4 DEF UsedComplete
<1>a. make[c].pc \in Using => make[c].art \in Creates /\ depOf[make[c].art] \in BOOLEAN
  BY <1>t DEF CodeTypes
<1>7. BringsFirst'
  <2> SUFFICES ASSUME NEW d \in Creates, NEW e \in Creates
               PROVE  /\ make'[d].pc \in {"lookup", "files", "register", "meta", "repair", "reload", "rmtree"}
                           => ~make'[d].cached
                      /\ make'[d].pc = "lookup" => ~make'[d].fresh
                      /\ Bringing(d)' /\ make'[d].pc \in Using => make'[d].art = d
                      /\ Bringing(d)' /\ make'[e].ver = make'[d].ver => make'[e].pc # "live"
    BY DEF BringsFirst
  <2>1. CASE d = c
    BY <2>1, <1>t, <1>v, <1>a, <1>b, <1>d, <1>e, <1>4 DEF CodeTypes, Registered, BringsFirst, UsedOk, Complete, Bringing
  <2>2. CASE d # c
    BY <2>2, <1>t, <1>v, <1>d, <1>e, <1>4 DEF CodeTypes, OneAtATime, Registered, BringsFirst, Bringing
  <2> QED
    BY <2>1, <2>2
<1>c. /\ \A d \in Creates : make[d].ver # make[c].ver => UsedOk(d)'
      /\ \A v \in Versions : v # Ver(c) => RestOk(v)'
  <2>1. /\ \A v \in Versions : v # Ver(c) => codes'[v] = codes[v]
        /\ \A x \in Creates : make[x].ver # Ver(c) => depOf'[x] = depOf[x]
    BY <1>t, <1>v DEF CodeTypes
  <2> QED
    BY <2>1, <1>t, <1>v, <1>4, OtherVersions
<1>8. UsedComplete'
  <2>1. UsedOk(c)'
    BY <1>t, <1>v, <1>a, <1>b, <1>d, <1>e, <1>f, <1>4 DEF CodeTypes, Registered, BringsFirst, UsedOk, RestComplete, RestOk, Dir, Bringing,
       Complete, Imports, DiskType, Deps, OneAtATime
  <2>2. ASSUME NEW d \in Creates, d # c /\ make[d].ver = make[c].ver PROVE UsedOk(d)'
    <3>1. UsedOk(d) /\ make'[d] = make[d]
      BY <2>2, <1>e, <1>4 DEF UsedComplete
    <3>2. disk'[Ver(c)].dir = disk[Ver(c)].dir /\ disk'[Ver(c)].deps = disk[Ver(c)].deps
      BY DEF Dir
    <3> QED
      BY <2>2, <3>1, <3>2 DEF UsedOk, Complete, Imports
  <2>3. ASSUME NEW d \in Creates PROVE UsedOk(d)'
    BY <2>1, <2>2, <1>c
  <2> QED
    BY <2>3 DEF UsedComplete
<1>9. RestComplete'
  <2>0. PICK v \in Versions : v = Ver(c)
    BY <1>v
  <2>1. RestOk(v)'
    <3> SUFFICES ASSUME codes'[v] # 0, \A d \in Creates : make'[d].ver = v => ~Bringing(d)'
                 PROVE  /\ disk'[v].dir /\ Imports(codes[v])'
                        /\ depOf'[codes'[v]] = (make'[codes'[v]].deps # "none")
      BY DEF RestOk
    <3>1. ~Bringing(c)'
      BY <1>d, <2>0
    <3>2. codes[Ver(c)] # 0 => codes[Ver(c)] \in Creates /\ make[codes[Ver(c)]].ver = make[c].ver
                               /\ make[codes[Ver(c)]].deps = make[c].deps /\ depOf[codes[Ver(c)]] \in BOOLEAN
      <4>1. codes[Ver(c)] # 0 => codes[Ver(c)] \in Creates /\ make[codes[Ver(c)]].ver = make[c].ver
        BY <1>t, <1>v, OfVersion
      <4> QED
        BY <4>1, <1>t DEF CodeTypes
    <3>4. make[c].pc \in Using \cup {"live"} => codes[Ver(c)] = make[c].art
      BY <1>4 DEF Registered
    <3>5. (make[c].pc \in Using /\ make[c].cached) \/ make[c].pc \in {"executor", "live"} => Complete(c)
      BY <1>b DEF UsedOk
    <3>6. make[c].pc = "live" => ~Bringing(c)
      BY DEF Bringing
    <3>0. \A d \in Creates : make'[d].ver = v => ~Bringing(d)'
      OBVIOUS
    <3>3. ~Bringing(c) /\ codes[Ver(c)] # 0 => disk[Ver(c)].dir /\ Imports(codes[Ver(c)])
                                             /\ depOf[codes[Ver(c)]] = (make[c].deps # "none")
      <4>1. RestOk(Ver(c))
        BY <1>4, <1>v DEF RestComplete
      <4>2. \A d \in Creates : d # c /\ make[d].ver = Ver(c) => ~Bringing(d)
        <5> SUFFICES ASSUME NEW d \in Creates, d # c, make[d].ver = Ver(c) PROVE ~Bringing(d)
          OBVIOUS
        <5>1. make'[d] = make[d] /\ ~Bringing(d)'
          BY <1>d, <1>e, <2>0, <3>0
        <5> QED
          BY <5>1 DEF Bringing
      <4> QED
        BY <4>1, <4>2, <3>2 DEF RestOk
    <3>7. /\ disk[Ver(c)].dir /\ Imports(codes[Ver(c)])
          /\ depOf[codes[Ver(c)]] = (make[c].deps # "none")
      <4>1. codes[Ver(c)] # 0
        BY <2>0
      <4>2. CASE ~Bringing(c)
        BY <4>1, <4>2, <3>3
      <4>3. CASE Bringing(c)
        <5>1. Complete(c) /\ codes[Ver(c)] = make[c].art
          BY <4>3, <3>1, <3>4, <3>5, <3>6, <1>e, <1>t DEF Bringing
        <5> QED
          BY <4>1, <5>1, <3>2 DEF Complete, Imports
      <4> QED
        BY <4>2, <4>3
    <3>8. disk'[Ver(c)].dir /\ disk'[Ver(c)].deps = disk[Ver(c)].deps
      BY <3>7 DEF Dir
    <3>9. depOf'[codes[Ver(c)]] = (make[c].deps # "none")
      BY <3>7, <3>2, <3>4, <1>t, <2>0 DEF CodeTypes
    <3>10. PICK a \in Creates : a = codes[Ver(c)] /\ a # 0
      BY <3>2, <2>0
    <3>11. /\ codes'[v] = a /\ disk'[v].dir /\ disk'[v].deps = disk[v].deps
           /\ depOf'[a] = (make[a].deps # "none") /\ Imports(a)
      BY <2>0, <3>2, <3>7, <3>8, <3>9, <3>10
    <3>12. make'[a].deps = make[a].deps /\ make'[a].ver = v /\ make[a].ver = v
      BY <2>0, <3>2, <3>10, <1>d
    <3>13. Imports(a)'
      BY <3>11, <3>12 DEF Imports
    <3>14. Imports(codes[v])'
      BY <3>11, <3>13 DEF Imports
    <3> QED
      BY <3>11, <3>12, <3>14
  <2> QED
    BY <2>0, <2>1, <1>c DEF RestComplete
<1> QED
  BY <1>5, <1>6, <1>7, <1>8, <1>9

\* A create takes its code out of the table.
LEMMA DropsKeeps ==
  ASSUME CodeInv, NEW c \in Creates, At(c, "drop"), ~make[c].cached,
         Goes(c, "rmtree", make[c].art, make[c].cached, make[c].fresh),
         codes' = [codes EXCEPT ![Ver(c)] = IF @ = make[c].art THEN 0 ELSE @],
         Dir(Ver(c), disk[Ver(c)].dir, disk[Ver(c)].deps), UNCHANGED <<depOf, wlock, rebuild, overlap>>
  PROVE  CodeInv'
<1> USE NodeCodeAssumption DEF At, Ver, Making, Using
<1>t. CodeTypes /\ Locked /\ make \in [Creates -> MakeType]
  BY DEF CodeInv, CodeTypes
<1>v. Ver(c) \in Versions /\ Ver(c) # 0
  BY <1>t DEF CodeTypes, MakeType
<1>d. make' \in [Creates -> MakeType] /\ \A d \in Creates : make'[d].ver = make[d].ver /\ make'[d].deps = make[d].deps
  BY DEF Goes
<1>e. /\ \A d \in Creates : d # c => make'[d] = make[d]
      /\ make'[c].pc = "rmtree" /\ make'[c].art = make[c].art /\ make'[c].cached = make[c].cached /\ make'[c].fresh = make[c].fresh
  BY DEF Goes
<1>f. \A d \in Creates : make[d] \in MakeType /\ make'[d] \in MakeType /\ (make[d].ver \in Versions \/ make[d].pc = "new")
  BY <1>d, <1>t DEF CodeTypes, MakeType
<1>1. CodeTypes'
  <2>1. /\ codes' \in [Versions -> Creates \cup {0}] /\ disk' \in [Versions -> DiskType]
        /\ depOf' \in [Creates -> BOOLEAN] /\ wlock' \in [Versions -> Creates \cup {0}]
    BY <1>t, <1>v DEF CodeTypes, Dir
  <2>2. "rmtree" \in Using \cup {"live"} => make[c].art \in Creates /\ make[make[c].art].ver = make[c].ver
    BY <1>t, <1>v DEF CodeTypes
  <2>3. \A v \in Versions : codes'[v] # 0 => make[codes'[v]].ver = v
    BY <1>t, <1>v DEF CodeTypes
  <2>4. make[c].pc # "new" /\ "rmtree" # "new"
    BY <1>t
  <2> QED
    BY <2>1, <2>2, <2>3, <2>4, <1>t, GoesTypes
<1>2. Locked'
  BY <1>t, <1>v DEF CodeTypes, Locked, Goes
<1>3. SUFFICES ASSUME ~overlap' PROVE OneAtATime' /\ Registered' /\ BringsFirst' /\ UsedComplete' /\ RestComplete'
  BY <1>1, <1>2 DEF CodeInv, CodeSound
<1>4. OneAtATime /\ Registered /\ BringsFirst /\ UsedComplete /\ RestComplete
  BY <1>3 DEF CodeInv, CodeSound
<1>5. OneAtATime'
  BY <1>4 DEF OneAtATime, Goes
<1>6. Registered'
  BY <1>t, <1>v, <1>4 DEF CodeTypes, OneAtATime, Registered, BringsFirst, Goes, Locked, Bringing
<1>b. UsedOk(c)
  BY <1>4 DEF UsedComplete
<1>a. make[c].pc \in Using => make[c].art \in Creates /\ depOf[make[c].art] \in BOOLEAN
  BY <1>t DEF CodeTypes
<1>7. BringsFirst'
  <2> SUFFICES ASSUME NEW d \in Creates, NEW e \in Creates
               PROVE  /\ make'[d].pc \in {"lookup", "files", "register", "meta", "repair", "reload", "rmtree"}
                           => ~make'[d].cached
                      /\ make'[d].pc = "lookup" => ~make'[d].fresh
                      /\ Bringing(d)' /\ make'[d].pc \in Using => make'[d].art = d
                      /\ Bringing(d)' /\ make'[e].ver = make'[d].ver => make'[e].pc # "live"
    BY DEF BringsFirst
  <2>1. CASE d = c
    BY <2>1, <1>t, <1>v, <1>a, <1>b, <1>d, <1>e, <1>4 DEF CodeTypes, Registered, BringsFirst, UsedOk, Complete, Bringing
  <2>2. CASE d # c
    BY <2>2, <1>t, <1>v, <1>d, <1>e, <1>4 DEF CodeTypes, OneAtATime, Registered, BringsFirst, Bringing
  <2> QED
    BY <2>1, <2>2
<1>c. /\ \A d \in Creates : make[d].ver # make[c].ver => UsedOk(d)'
      /\ \A v \in Versions : v # Ver(c) => RestOk(v)'
  <2>1. /\ \A v \in Versions : v # Ver(c) => codes'[v] = codes[v]
        /\ \A x \in Creates : make[x].ver # Ver(c) => depOf'[x] = depOf[x]
    BY <1>t, <1>v DEF CodeTypes
  <2> QED
    BY <2>1, <1>t, <1>v, <1>4, OtherVersions
<1>8. UsedComplete'
  <2>1. UsedOk(c)'
    BY <1>t, <1>v, <1>a, <1>b, <1>d, <1>e, <1>f, <1>4 DEF CodeTypes, Registered, BringsFirst, UsedOk, RestComplete, RestOk, Dir, Bringing,
       Complete, Imports, DiskType, Deps, OneAtATime
  <2>2. ASSUME NEW d \in Creates, d # c /\ make[d].ver = make[c].ver PROVE UsedOk(d)'
    <3>1. UsedOk(d) /\ make'[d] = make[d]
      BY <2>2, <1>e, <1>4 DEF UsedComplete
    <3>2. make[d].pc \notin Making
      BY <2>2, <1>4 DEF OneAtATime
    <3>3. make[d].pc = "live" => Complete(d) /\ make[d].art \in Creates /\ ~Bringing(c) /\ depOf[make[d].art] \in BOOLEAN
                                 /\ codes[Ver(c)] = make[d].art
      <4> SUFFICES ASSUME make[d].pc = "live"
                   PROVE  Complete(d) /\ make[d].art \in Creates /\ ~Bringing(c) /\ depOf[make[d].art] \in BOOLEAN
                          /\ codes[Ver(c)] = make[d].art
        OBVIOUS
      <4>1. Complete(d)
        BY <3>1 DEF UsedOk
      <4>2. make[d].art \in Creates /\ depOf[make[d].art] \in BOOLEAN
        BY <1>t DEF CodeTypes
      <4>3. ~Bringing(c)
        BY <2>2, <1>4 DEF BringsFirst
      <4>4. codes[Ver(c)] = make[d].art
        BY <2>2, <1>4 DEF Registered
      <4> QED
        BY <4>1, <4>2, <4>3, <4>4
    <3>4. make[d].pc = "live" => Complete(d)'
      BY <2>2, <3>1, <3>3, <1>t, <1>v, <1>a, <1>b, <1>d, <1>f, <1>4 DEF UsedOk, Dir, Bringing, BringsFirst, Complete, Imports, Registered, DiskType
    <3> QED
      BY <3>1, <3>2, <3>4 DEF UsedOk
  <2>3. ASSUME NEW d \in Creates PROVE UsedOk(d)'
    BY <2>1, <2>2, <1>c
  <2> QED
    BY <2>3 DEF UsedComplete
<1>9. RestComplete'
  <2>0. PICK v \in Versions : v = Ver(c)
    BY <1>v
  <2>1. RestOk(v)'
    <3> SUFFICES ASSUME codes'[v] # 0, \A d \in Creates : make'[d].ver = v => ~Bringing(d)'
                 PROVE  /\ disk'[v].dir /\ Imports(codes[v])'
                        /\ depOf'[codes'[v]] = (make'[codes'[v]].deps # "none")
      BY DEF RestOk
    <3>1. ~Bringing(c)'
      BY <1>d, <2>0
    <3>2. codes[Ver(c)] # 0 => codes[Ver(c)] \in Creates /\ make[codes[Ver(c)]].ver = make[c].ver
                               /\ make[codes[Ver(c)]].deps = make[c].deps /\ depOf[codes[Ver(c)]] \in BOOLEAN
      <4>1. codes[Ver(c)] # 0 => codes[Ver(c)] \in Creates /\ make[codes[Ver(c)]].ver = make[c].ver
        BY <1>t, <1>v, OfVersion
      <4> QED
        BY <4>1, <1>t DEF CodeTypes
    <3>4. make[c].pc \in Using \cup {"live"} => codes[Ver(c)] = make[c].art
      BY <1>4 DEF Registered
    <3>5. (make[c].pc \in Using /\ make[c].cached) \/ make[c].pc \in {"executor", "live"} => Complete(c)
      BY <1>b DEF UsedOk
    <3>6. make[c].pc = "live" => ~Bringing(c)
      BY DEF Bringing
    <3>0. \A d \in Creates : make'[d].ver = v => ~Bringing(d)'
      OBVIOUS
    <3>3. ~Bringing(c) /\ codes[Ver(c)] # 0 => disk[Ver(c)].dir /\ Imports(codes[Ver(c)])
                                             /\ depOf[codes[Ver(c)]] = (make[c].deps # "none")
      <4>1. RestOk(Ver(c))
        BY <1>4, <1>v DEF RestComplete
      <4>2. \A d \in Creates : d # c /\ make[d].ver = Ver(c) => ~Bringing(d)
        <5> SUFFICES ASSUME NEW d \in Creates, d # c, make[d].ver = Ver(c) PROVE ~Bringing(d)
          OBVIOUS
        <5>1. make'[d] = make[d] /\ ~Bringing(d)'
          BY <1>d, <1>e, <2>0, <3>0
        <5> QED
          BY <5>1 DEF Bringing
      <4> QED
        BY <4>1, <4>2, <3>2 DEF RestOk
    <3> QED
      BY <2>0, <3>1, <3>2, <3>3, <3>4, <3>5, <3>6, <1>t, <1>v, <1>a, <1>b, <1>d, <1>e, <1>4 DEF Registered, BringsFirst, UsedOk, Dir, Bringing,
         Complete, Imports, CodeTypes
  <2> QED
    BY <2>0, <2>1, <1>c DEF RestComplete
<1> QED
  BY <1>5, <1>6, <1>7, <1>8, <1>9

\* It removes the variant directory.
LEMMA RemovesKeeps ==
  ASSUME CodeInv, NEW c \in Creates, At(c, "rmtree"),
         Goes(c, "failed", make[c].art, make[c].cached, make[c].fresh),
         Dir(Ver(c), FALSE, FALSE), UNCHANGED <<codes, depOf, wlock, rebuild, overlap>>
  PROVE  CodeInv'
<1> USE NodeCodeAssumption DEF At, Ver, Making, Using
<1>t. CodeTypes /\ Locked /\ make \in [Creates -> MakeType]
  BY DEF CodeInv, CodeTypes
<1>v. Ver(c) \in Versions /\ Ver(c) # 0
  BY <1>t DEF CodeTypes, MakeType
<1>d. make' \in [Creates -> MakeType] /\ \A d \in Creates : make'[d].ver = make[d].ver /\ make'[d].deps = make[d].deps
  BY DEF Goes
<1>e. /\ \A d \in Creates : d # c => make'[d] = make[d]
      /\ make'[c].pc = "failed" /\ make'[c].art = make[c].art /\ make'[c].cached = make[c].cached /\ make'[c].fresh = make[c].fresh
  BY DEF Goes
<1>f. \A d \in Creates : make[d] \in MakeType /\ make'[d] \in MakeType /\ (make[d].ver \in Versions \/ make[d].pc = "new")
  BY <1>d, <1>t DEF CodeTypes, MakeType
<1>1. CodeTypes'
  <2>1. /\ codes' \in [Versions -> Creates \cup {0}] /\ disk' \in [Versions -> DiskType]
        /\ depOf' \in [Creates -> BOOLEAN] /\ wlock' \in [Versions -> Creates \cup {0}]
    BY <1>t, <1>v DEF CodeTypes, Dir
  <2>2. "failed" \in Using \cup {"live"} => make[c].art \in Creates /\ make[make[c].art].ver = make[c].ver
    BY <1>t, <1>v DEF CodeTypes
  <2>3. \A v \in Versions : codes'[v] # 0 => make[codes'[v]].ver = v
    BY <1>t, <1>v DEF CodeTypes
  <2>4. make[c].pc # "new" /\ "failed" # "new"
    BY <1>t
  <2> QED
    BY <2>1, <2>2, <2>3, <2>4, <1>t, GoesTypes
<1>2. Locked'
  BY <1>t, <1>v DEF CodeTypes, Locked, Goes
<1>3. SUFFICES ASSUME ~overlap' PROVE OneAtATime' /\ Registered' /\ BringsFirst' /\ UsedComplete' /\ RestComplete'
  BY <1>1, <1>2 DEF CodeInv, CodeSound
<1>4. OneAtATime /\ Registered /\ BringsFirst /\ UsedComplete /\ RestComplete
  BY <1>3 DEF CodeInv, CodeSound
<1>5. OneAtATime'
  BY <1>4 DEF OneAtATime, Goes
<1>6. Registered'
  BY <1>t, <1>v, <1>4 DEF CodeTypes, OneAtATime, Registered, BringsFirst, Goes, Locked, Bringing
<1>b. UsedOk(c)
  BY <1>4 DEF UsedComplete
<1>a. make[c].pc \in Using => make[c].art \in Creates /\ depOf[make[c].art] \in BOOLEAN
  BY <1>t DEF CodeTypes
<1>7. BringsFirst'
  <2> SUFFICES ASSUME NEW d \in Creates, NEW e \in Creates
               PROVE  /\ make'[d].pc \in {"lookup", "files", "register", "meta", "repair", "reload", "rmtree"}
                           => ~make'[d].cached
                      /\ make'[d].pc = "lookup" => ~make'[d].fresh
                      /\ Bringing(d)' /\ make'[d].pc \in Using => make'[d].art = d
                      /\ Bringing(d)' /\ make'[e].ver = make'[d].ver => make'[e].pc # "live"
    BY DEF BringsFirst
  <2>1. CASE d = c
    BY <2>1, <1>t, <1>v, <1>a, <1>b, <1>d, <1>e, <1>4 DEF CodeTypes, Registered, BringsFirst, UsedOk, Complete, Bringing
  <2>2. CASE d # c
    BY <2>2, <1>t, <1>v, <1>d, <1>e, <1>4 DEF CodeTypes, OneAtATime, Registered, BringsFirst, Bringing
  <2> QED
    BY <2>1, <2>2
<1>c. /\ \A d \in Creates : make[d].ver # make[c].ver => UsedOk(d)'
      /\ \A v \in Versions : v # Ver(c) => RestOk(v)'
  <2>1. /\ \A v \in Versions : v # Ver(c) => codes'[v] = codes[v]
        /\ \A x \in Creates : make[x].ver # Ver(c) => depOf'[x] = depOf[x]
    BY <1>t, <1>v DEF CodeTypes
  <2> QED
    BY <2>1, <1>t, <1>v, <1>4, OtherVersions
<1>8. UsedComplete'
  <2>1. UsedOk(c)'
    BY <1>t, <1>v, <1>a, <1>b, <1>d, <1>e, <1>f, <1>4 DEF CodeTypes, Registered, BringsFirst, UsedOk, RestComplete, RestOk, Dir, Bringing,
       Complete, Imports, DiskType, Deps, OneAtATime
  <2>2. ASSUME NEW d \in Creates, d # c /\ make[d].ver = make[c].ver PROVE UsedOk(d)'
    <3>1. UsedOk(d) /\ make'[d] = make[d]
      BY <2>2, <1>e, <1>4 DEF UsedComplete
    <3>2. make[d].pc \notin Making
      BY <2>2, <1>4 DEF OneAtATime
    <3>3. make[d].pc = "live" => Complete(d) /\ make[d].art \in Creates /\ ~Bringing(c) /\ depOf[make[d].art] \in BOOLEAN
                                 /\ codes[Ver(c)] = make[d].art
      <4> SUFFICES ASSUME make[d].pc = "live"
                   PROVE  Complete(d) /\ make[d].art \in Creates /\ ~Bringing(c) /\ depOf[make[d].art] \in BOOLEAN
                          /\ codes[Ver(c)] = make[d].art
        OBVIOUS
      <4>1. Complete(d)
        BY <3>1 DEF UsedOk
      <4>2. make[d].art \in Creates /\ depOf[make[d].art] \in BOOLEAN
        BY <1>t DEF CodeTypes
      <4>3. ~Bringing(c)
        BY <2>2, <1>4 DEF BringsFirst
      <4>4. codes[Ver(c)] = make[d].art
        BY <2>2, <1>4 DEF Registered
      <4> QED
        BY <4>1, <4>2, <4>3, <4>4
    <3>4. make[d].pc = "live" => Complete(d)'
      BY <2>2, <3>1, <3>3, <1>t, <1>v, <1>a, <1>b, <1>d, <1>f, <1>4 DEF UsedOk, Dir, Bringing, BringsFirst, Complete, Imports, Registered, DiskType
    <3> QED
      BY <3>1, <3>2, <3>4 DEF UsedOk
  <2>3. ASSUME NEW d \in Creates PROVE UsedOk(d)'
    BY <2>1, <2>2, <1>c
  <2> QED
    BY <2>3 DEF UsedComplete
<1>9. RestComplete'
  <2>0. PICK v \in Versions : v = Ver(c)
    BY <1>v
  <2>1. RestOk(v)'
    <3> SUFFICES ASSUME codes'[v] # 0, \A d \in Creates : make'[d].ver = v => ~Bringing(d)'
                 PROVE  /\ disk'[v].dir /\ Imports(codes[v])'
                        /\ depOf'[codes'[v]] = (make'[codes'[v]].deps # "none")
      BY DEF RestOk
    <3>1. ~Bringing(c)'
      BY <1>d, <2>0
    <3>2. codes[Ver(c)] # 0 => codes[Ver(c)] \in Creates /\ make[codes[Ver(c)]].ver = make[c].ver
                               /\ make[codes[Ver(c)]].deps = make[c].deps /\ depOf[codes[Ver(c)]] \in BOOLEAN
      <4>1. codes[Ver(c)] # 0 => codes[Ver(c)] \in Creates /\ make[codes[Ver(c)]].ver = make[c].ver
        BY <1>t, <1>v, OfVersion
      <4> QED
        BY <4>1, <1>t DEF CodeTypes
    <3>4. make[c].pc \in Using \cup {"live"} => codes[Ver(c)] = make[c].art
      BY <1>4 DEF Registered
    <3>5. (make[c].pc \in Using /\ make[c].cached) \/ make[c].pc \in {"executor", "live"} => Complete(c)
      BY <1>b DEF UsedOk
    <3>6. make[c].pc = "live" => ~Bringing(c)
      BY DEF Bringing
    <3>0. \A d \in Creates : make'[d].ver = v => ~Bringing(d)'
      OBVIOUS
    <3>3. ~Bringing(c) /\ codes[Ver(c)] # 0 => disk[Ver(c)].dir /\ Imports(codes[Ver(c)])
                                             /\ depOf[codes[Ver(c)]] = (make[c].deps # "none")
      <4>1. RestOk(Ver(c))
        BY <1>4, <1>v DEF RestComplete
      <4>2. \A d \in Creates : d # c /\ make[d].ver = Ver(c) => ~Bringing(d)
        <5> SUFFICES ASSUME NEW d \in Creates, d # c, make[d].ver = Ver(c) PROVE ~Bringing(d)
          OBVIOUS
        <5>1. make'[d] = make[d] /\ ~Bringing(d)'
          BY <1>d, <1>e, <2>0, <3>0
        <5> QED
          BY <5>1 DEF Bringing
      <4> QED
        BY <4>1, <4>2, <3>2 DEF RestOk
    <3> QED
      BY <2>0, <3>1, <3>2, <3>3, <3>4, <3>5, <3>6, <1>t, <1>v, <1>a, <1>b, <1>d, <1>e, <1>4 DEF Registered, BringsFirst, UsedOk, Dir, Bringing,
         Complete, Imports, CodeTypes
  <2> QED
    BY <2>0, <2>1, <1>c DEF RestComplete
<1> QED
  BY <1>5, <1>6, <1>7, <1>8, <1>9

-----------------------------------------------------------------------------
(* NodeCode: its actions. *)

\* An upload starts the create of a version.
LEMMA UploadKeeps ==
  ASSUME CodeInv, NEW c \in Creates, NEW v \in Versions, NEW deps \in Deps, NEW async \in BOOLEAN,
         Upload(c, v, deps, async)
  PROVE  CodeInv'
<1> USE NodeCodeAssumption DEF At, Ver
<1> DEFINE r == [NewMake EXCEPT !.pc = "lookup", !.ver = v, !.deps = deps, !.async = async]
<1>0. make' = [make EXCEPT ![c] = r] /\ UNCHANGED <<codes, disk, depOf, wlock, rebuild>>
      /\ make[c].pc = "new" /\ overlap' = (overlap \/ Under(v) # {})
      /\ \A d \in Creates : make[d].ver = v => make[d].deps = deps
  BY DEF Upload
<1>r. r \in MakeType /\ r.pc = "lookup" /\ r.ver = v /\ r.deps = deps /\ ~r.cached /\ ~r.fresh
  BY DEF MakeType, NewMake, CodePcs, Making
<1> HIDE DEF r
<1>t. CodeTypes /\ Locked /\ make \in [Creates -> MakeType]
  BY DEF CodeInv, CodeTypes
<1>e. make' \in [Creates -> MakeType] /\ make'[c] = r /\ \A d \in Creates : d # c => make'[d] = make[d]
  BY <1>0, <1>r, <1>t
<1>v. v # 0 /\ "new" \notin Using \cup Making \cup {"live"} /\ "lookup" \notin Using /\ "lookup" \in Making
  BY DEF Using, Making
<1>1. CodeTypes'
  <2>1. \A d \in Creates : make'[d].ver = 0 <=> make'[d].pc = "new"
    BY <1>e, <1>r, <1>v, <1>t DEF CodeTypes
  <2>a. \A d \in Creates : make[d].ver # 0 => d # c
    BY <1>0, <1>t DEF CodeTypes
  <2>2. \A w \in Versions : codes'[w] # 0 => make'[codes'[w]].ver = w
    <3> SUFFICES ASSUME NEW w \in Versions, codes[w] # 0 PROVE make'[codes[w]].ver = w
      BY <1>0
    <3>1. codes[w] \in Creates /\ make[codes[w]].ver = w /\ w # 0
      BY <1>t, OfVersion
    <3> QED
      BY <3>1, <2>a, <1>e
  <2>3. \A d \in Creates : make'[d].pc \in Using \cup {"live"}
                             => make'[d].art \in Creates /\ make'[make'[d].art].ver = make'[d].ver
    <3> SUFFICES ASSUME NEW d \in Creates, make'[d].pc \in Using \cup {"live"}
                 PROVE  make'[d].art \in Creates /\ make'[make'[d].art].ver = make'[d].ver
      OBVIOUS
    <3>1. d # c /\ make'[d] = make[d]
      BY <1>e, <1>r, <1>v
    <3>2. make[d].art \in Creates /\ make[make[d].art].ver = make[d].ver /\ make[d].ver # 0
      <4>1. make[d].pc \in Using \cup {"live"} /\ make[d].pc # "new"
        BY <3>1, <1>v
      <4>2. make[d].art \in Creates /\ make[make[d].art].ver = make[d].ver
        BY <4>1, <1>t DEF CodeTypes
      <4>3. make[d].ver # 0
        BY <4>1, <1>t DEF CodeTypes
      <4> QED
        BY <4>2, <4>3
    <3>3. PICK a \in Creates : a = make[d].art
      BY <3>2
    <3>4. make'[a].ver = make[a].ver
      BY <3>2, <3>3, <2>a, <1>e
    <3> QED
      BY <3>1, <3>2, <3>3, <3>4
  <2>4. \A d, e \in Creates : make'[d].ver = make'[e].ver => make'[d].deps = make'[e].deps
    BY <1>0, <1>e, <1>r, <1>t DEF CodeTypes
  <2>5. overlap' \in BOOLEAN
    BY <1>0, <1>t DEF CodeTypes
  <2> QED
    BY <1>0, <1>e, <1>t, <2>1, <2>2, <2>3, <2>4, <2>5 DEF CodeTypes
<1>2. Locked'
  BY <1>0, <1>e, <1>r, <1>t DEF Locked
<1>3. SUFFICES ASSUME ~overlap' PROVE OneAtATime' /\ Registered' /\ BringsFirst' /\ UsedComplete' /\ RestComplete'
  BY <1>1, <1>2 DEF CodeInv, CodeSound
<1>4. OneAtATime /\ Registered /\ BringsFirst /\ UsedComplete /\ RestComplete /\ Under(v) = {}
  BY <1>3, <1>0 DEF CodeInv, CodeSound
<1>5. \A d \in Creates : make[d].ver = v => make[d].pc \notin Making
  BY <1>4 DEF Under
<1>6. OneAtATime'
  BY <1>4, <1>5, <1>e, <1>r DEF OneAtATime
<1>7. Registered'
  BY <1>0, <1>4, <1>e, <1>r, <1>v DEF Registered
<1>b. \A d \in Creates : Bringing(d)' <=> Bringing(d)
  BY <1>0, <1>e, <1>r, <1>v DEF Bringing
<1>8. BringsFirst'
  BY <1>0, <1>4, <1>5, <1>e, <1>r, <1>v DEF BringsFirst, Bringing
<1>9. UsedComplete'
  <2> SUFFICES ASSUME NEW d \in Creates PROVE UsedOk(d)'
    BY DEF UsedComplete
  <2>1. CASE d = c
    BY <2>1, <1>e, <1>r, <1>v DEF UsedOk
  <2>2. CASE d # c
    BY <2>2, <1>0, <1>4, <1>e DEF UsedComplete, UsedOk, Complete, Imports
  <2> QED
    BY <2>1, <2>2
<1>10. RestComplete'
  <2> SUFFICES ASSUME NEW w \in Versions, codes[w] # 0, \A d \in Creates : make'[d].ver = w => ~Bringing(d)'
               PROVE  disk[w].dir /\ Imports(codes[w])' /\ depOf[codes[w]] = (make'[codes[w]].deps # "none")
    BY <1>0 DEF RestComplete, RestOk
  <2>1. codes[w] \in Creates /\ make[codes[w]].ver = w /\ w # 0
    BY <1>t, OfVersion
  <2>2. codes[w] # c
    BY <2>1, <1>0, <1>t DEF CodeTypes
  <2>3. \A d \in Creates : make[d].ver = w => ~Bringing(d)
    BY <1>b, <1>e, <1>0, <1>v DEF Bringing
  <2>4. disk[w].dir /\ Imports(codes[w]) /\ depOf[codes[w]] = (make[codes[w]].deps # "none")
    BY <1>4, <2>3 DEF RestComplete, RestOk
  <2> QED
    BY <2>1, <2>2, <2>4, <1>0, <1>e DEF Imports
<1> QED
  BY <1>6, <1>7, <1>8, <1>9, <1>10

\* A session that a rebuild gives up was in its targets without an artifact.
LEMMA RebuildKeeps ==
  ASSUME CodeInv, RebuildBegins \/ RebuildEnds
  PROVE  CodeInv'
<1> USE NodeCodeAssumption DEF Ver
<1>t. CodeTypes /\ Locked /\ make \in [Creates -> MakeType]
  BY DEF CodeInv, CodeTypes
<1>1. CASE RebuildBegins
  <2>0. UNCHANGED <<codes, disk, depOf, wlock, make, overlap>>
        /\ rebuild' = [on |-> TRUE, targets |-> {<<c, codes[Ver(c)]>> : c \in LiveSessions}]
    BY <1>1 DEF RebuildBegins
  <2>1. \A c \in LiveSessions : c \in Creates /\ make[c].pc = "live" /\ make[c].ver \in Versions
    BY <1>t DEF LiveSessions, CodeTypes, MakeType
  <2>5. \A c \in LiveSessions : codes[Ver(c)] \in Creates \cup {0}
    BY <2>1, <1>t DEF CodeTypes
  <2>6. rebuild'.targets = {<<c, codes[Ver(c)]>> : c \in LiveSessions} /\ rebuild'.on = TRUE
    BY <2>0
  <2>7. rebuild'.targets \subseteq Creates \X (Creates \cup {0})
    BY <2>1, <2>5, <2>6
  <2>2. rebuild' \in [on : BOOLEAN, targets : SUBSET (Creates \X (Creates \cup {0}))]
    <3>1. rebuild' = [on |-> TRUE, targets |-> rebuild'.targets]
      BY <2>0
    <3>2. rebuild'.targets \in SUBSET (Creates \X (Creates \cup {0})) /\ TRUE \in BOOLEAN
      BY <2>7
    <3> DEFINE T == rebuild'.targets
               P == SUBSET (Creates \X (Creates \cup {0}))
    <3>3. rebuild' = [on |-> TRUE, targets |-> T] /\ T \in P
      BY <3>1, <3>2
    <3> HIDE DEF T, P
    <3>4. rebuild' \in [on : BOOLEAN, targets : P]
      BY <3>3
    <3> QED
      BY <3>4 DEF P
  <2>3. CodeTypes' /\ Locked'
    BY <2>0, <2>2, <1>t DEF CodeTypes, Locked
  <2>4. ASSUME ~overlap' PROVE OneAtATime' /\ Registered' /\ BringsFirst' /\ UsedComplete' /\ RestComplete'
    <3>1. OneAtATime /\ Registered /\ BringsFirst /\ UsedComplete /\ RestComplete
      BY <2>4, <2>0 DEF CodeInv, CodeSound
    <3>5. ASSUME NEW c \in LiveSessions PROVE codes[Ver(c)] # 0
      <4>1. make[c].art \in Creates /\ codes[Ver(c)] = make[c].art
        BY <2>1, <3>1, <1>t DEF Registered, CodeTypes
      <4> QED
        BY <4>1
    <3>2. \A t \in rebuild'.targets : t[2] # 0
      BY <2>6, <3>5
    <3>3. OneAtATime' /\ Registered' /\ BringsFirst'
      BY <3>1, <3>2, <2>0 DEF OneAtATime, Registered, BringsFirst, Bringing
    <3>4. UsedComplete' /\ RestComplete'
      BY <3>1, <2>0 DEF UsedComplete, UsedOk, RestComplete, RestOk, Complete, Imports, Bringing
    <3> QED
      BY <3>3, <3>4
  <2> QED
    BY <2>3, <2>4 DEF CodeInv, CodeSound
<1>2. CASE RebuildEnds
  <2> DEFINE lost == {t[1] : t \in {x \in rebuild.targets : x[2] = 0}}
             L == lost \cap LiveSessions
  <2>0. UNCHANGED <<codes, disk, depOf, wlock, overlap>> /\ rebuild' = [on |-> FALSE, targets |-> {}]
        /\ make' = [c \in Creates |-> IF c \in L THEN [make[c] EXCEPT !.pc = "lost"] ELSE make[c]]
    BY <1>2 DEF RebuildEnds
  <2>a. ~overlap => L = {}
    BY DEF CodeInv, CodeSound, Registered
  <2>b. \A c \in L : make[c].pc = "live"
    BY DEF LiveSessions
  <2> HIDE DEF L
  <2>1. make' \in [Creates -> MakeType]
    BY <2>0, <1>t DEF MakeType, CodePcs
  <2>2. \A c \in Creates : /\ make'[c].ver = make[c].ver /\ make'[c].deps = make[c].deps /\ make'[c].art = make[c].art
                           /\ make'[c].pc = make[c].pc \/ (make'[c].pc = "lost" /\ make[c].pc = "live")
    <3> SUFFICES ASSUME NEW c \in Creates
                 PROVE  /\ make'[c].ver = make[c].ver /\ make'[c].deps = make[c].deps /\ make'[c].art = make[c].art
                        /\ make'[c].pc = make[c].pc \/ (make'[c].pc = "lost" /\ make[c].pc = "live")
      OBVIOUS
    <3>1. make[c] \in MakeType
      BY <1>t
    <3>2. CASE c \in L
      <4>1. make'[c] = [make[c] EXCEPT !.pc = "lost"] /\ make[c].pc = "live"
        BY <3>2, <2>0, <2>b
      <4> QED
        BY <3>1, <4>1 DEF MakeType
    <3>3. CASE c \notin L
      <4>1. make'[c] = make[c]
        BY <3>3, <2>0
      <4> QED
        BY <4>1
    <3> QED
      BY <3>2, <3>3
  <2>3. CodeTypes'
    <3>1. ASSUME NEW c \in Creates PROVE make'[c].ver = 0 <=> make'[c].pc = "new"
      <4>1. make[c].ver = 0 <=> make[c].pc = "new"
        BY <1>t DEF CodeTypes
      <4>2. make'[c].ver = make[c].ver
        BY <2>2
      <4>3. make'[c].pc = "new" <=> make[c].pc = "new"
        BY <2>2
      <4> QED
        BY <4>1, <4>2, <4>3
    <3>2. \A c \in Creates : make'[c].pc \in Using \cup {"live"}
                               => make'[c].art \in Creates /\ make'[make'[c].art].ver = make'[c].ver
      <4> SUFFICES ASSUME NEW c \in Creates, make'[c].pc \in Using \cup {"live"}
                   PROVE  make'[c].art \in Creates /\ make'[make'[c].art].ver = make'[c].ver
        OBVIOUS
      <4>1. make[c].pc \in Using \cup {"live"}
        BY <2>2 DEF Using
      <4>2. make[c].art \in Creates /\ make[make[c].art].ver = make[c].ver
        BY <4>1, <1>t DEF CodeTypes
      <4> QED
        BY <4>2, <2>2
    <3>3. \A v \in Versions : codes'[v] # 0 => make'[codes'[v]].ver = v
      <4> SUFFICES ASSUME NEW v \in Versions, codes[v] # 0 PROVE make'[codes[v]].ver = v
        BY <2>0
      <4>1. codes[v] \in Creates /\ make[codes[v]].ver = v
        BY <1>t, OfVersion
      <4> QED
        BY <4>1, <2>2
    <3>4. \A c, d \in Creates : make'[c].ver = make'[d].ver => make'[c].deps = make'[d].deps
      BY <2>2, <1>t DEF CodeTypes
    <3> QED
      BY <2>0, <2>1, <3>1, <3>2, <3>3, <3>4, <1>t DEF CodeTypes
  <2>4. Locked'
    BY <2>0, <2>2, <1>t DEF Locked
  <2>5. ASSUME ~overlap' PROVE OneAtATime' /\ Registered' /\ BringsFirst' /\ UsedComplete' /\ RestComplete'
    <3>1. OneAtATime /\ Registered /\ BringsFirst /\ UsedComplete /\ RestComplete
      BY <2>5, <2>0 DEF CodeInv, CodeSound
    <3>2. make' = make
      BY <2>0, <2>a, <2>5, <1>t
    <3>5. UNCHANGED <<codes, disk, depOf>> /\ rebuild'.targets = {}
      BY <2>0
    <3>3. OneAtATime' /\ Registered' /\ BringsFirst'
      BY <3>1, <3>2, <3>5 DEF OneAtATime, Registered, BringsFirst, Bringing
    <3>4. UsedComplete' /\ RestComplete'
      BY <3>1, <3>2, <3>5 DEF UsedComplete, UsedOk, RestComplete, RestOk, Complete, Imports, Bringing
    <3> QED
      BY <3>3, <3>4
  <2> QED
    BY <2>3, <2>4, <2>5 DEF CodeInv, CodeSound
<1> QED
  BY <1>1, <1>2

\* A step that sets fields of a create, but neither its version nor what that imports.
LEMMA GoesWith ==
  ASSUME CodeTypes, NEW c \in Creates, NEW r \in MakeType, make' = [make EXCEPT ![c] = r],
         r.ver = make[c].ver, r.deps = make[c].deps
  PROVE  Goes(c, r.pc, r.art, r.cached, r.fresh)
BY DEF CodeTypes, Goes

\* The lookup of a version and the writing of its files.
LEMMA PutCodeKeeps ==
  ASSUME CodeInv, NEW c \in Creates,
         Lookup(c) \/ WriteFiles(c) \/ FilesFail(c) \/ Register(c) \/ WriteMeta(c)
  PROVE  CodeInv'
<1> USE NodeCodeAssumption
<1>t. CodeTypes /\ make[c] \in MakeType
  BY DEF CodeInv, CodeTypes
<1>p. {"files", "failed", "register", "meta", "install"} \subseteq CodePcs
  BY DEF CodePcs, Making
<1>v. make[c].pc # "new" => Ver(c) \in Versions /\ disk[Ver(c)] \in DiskType /\ codes[Ver(c)] \in Creates \cup {0}
  BY <1>t DEF CodeTypes, MakeType, Ver
<1>0. At(c, "lookup") \/ At(c, "files") \/ At(c, "register") \/ At(c, "meta") => make[c].pc # "new"
  BY DEF At
<1>1. CASE Lookup(c)
  <2>0. At(c, "lookup") /\ wlock[Ver(c)] = 0 /\ UNCHANGED <<codes, disk, depOf, rebuild, overlap>>
    BY <1>1 DEF Lookup
  <2>d. Dir(Ver(c), disk[Ver(c)].dir, disk[Ver(c)].deps)
    BY <2>0, <1>0, <1>v, <1>t, DirSame
  <2>1. CASE codes[Ver(c)] # 0
    <3> DEFINE r == [make[c] EXCEPT !.pc = "install", !.cached = TRUE, !.art = codes[Ver(c)]]
    <3>1. make' = [make EXCEPT ![c] = r] /\ UNCHANGED wlock
      BY ZenonT(60), <1>1, <2>1, <1>t DEF Lookup, CodeTypes
    <3>2. r \in MakeType /\ r.pc = "install" /\ r.ver = make[c].ver /\ r.deps = make[c].deps
          /\ r.art = codes[Ver(c)] /\ r.cached = TRUE /\ r.fresh = make[c].fresh
      BY <1>t, <1>p, <2>0, <1>0, <1>v, <2>1 DEF MakeType
    <3> HIDE DEF r
    <3>3. Goes(c, "install", codes[Ver(c)], TRUE, make[c].fresh)
      BY <3>1, <3>2, <1>t, GoesWith
    <3> QED
      BY <2>0, <2>d, <2>1, <3>1, <3>3, HitKeeps
  <2>2. CASE codes[Ver(c)] = 0
    <3>1. Step(c, "files") /\ wlock' = [wlock EXCEPT ![Ver(c)] = c]
      BY <1>1, <2>2 DEF Lookup
    <3>2. Goes(c, "files", make[c].art, make[c].cached, make[c].fresh)
      BY <3>1, <1>t, <1>p, StepGoes
    <3> QED
      BY <2>0, <2>d, <2>2, <3>1, <3>2, MissKeeps
  <2> QED
    BY <2>1, <2>2
<1>2. CASE WriteFiles(c) \/ FilesFail(c)
  <2>0. At(c, "files")
    BY <1>2 DEF WriteFiles, FilesFail
  <2>d. Dir(Ver(c), TRUE, disk[Ver(c)].deps)
    <3> DEFINE e == [disk[Ver(c)] EXCEPT !.dir = TRUE]
    <3>1. disk' = [disk EXCEPT ![Ver(c)] = e]
      BY <1>2 DEF WriteFiles, FilesFail
    <3>2. e \in DiskType /\ e.dir = TRUE /\ e.deps = disk[Ver(c)].deps
      BY <1>v, <1>0, <2>0 DEF DiskType
    <3> HIDE DEF e
    <3> QED
      BY <3>1, <3>2, <1>v, <1>0, <2>0, <1>t, DirSet
  <2>1. CASE WriteFiles(c)
    <3>1. Goes(c, "register", make[c].art, make[c].cached, make[c].fresh)
      BY <2>1, <1>t, <1>p, StepGoes DEF WriteFiles
    <3>2. UNCHANGED <<codes, depOf, wlock, rebuild, overlap>>
      BY <2>1 DEF WriteFiles
    <3> QED
      BY <2>0, <2>d, <3>1, <3>2, FilesKeeps
  <2>2. CASE FilesFail(c)
    <3>1. Goes(c, "failed", make[c].art, make[c].cached, make[c].fresh)
      BY <2>2, <1>t, <1>p, StepGoes DEF FilesFail
    <3>2. wlock' = [wlock EXCEPT ![Ver(c)] = 0] /\ UNCHANGED <<codes, depOf, rebuild, overlap>>
      BY <2>2 DEF FilesFail
    <3> QED
      BY <2>0, <2>d, <3>1, <3>2, NoFilesKeeps
  <2> QED
    BY <1>2, <2>1, <2>2
<1>3. CASE Register(c)
  <2>0. At(c, "register") /\ codes' = [codes EXCEPT ![Ver(c)] = c] /\ UNCHANGED <<disk, depOf, wlock, rebuild, overlap>>
    BY <1>3 DEF Register
  <2>d. Dir(Ver(c), disk[Ver(c)].dir, disk[Ver(c)].deps)
    BY <2>0, <1>0, <1>v, <1>t, DirSame
  <2> DEFINE r == [make[c] EXCEPT !.pc = "meta", !.art = c]
  <2>1. make' = [make EXCEPT ![c] = r]
    BY <1>3, <1>t DEF Register, CodeTypes
  <2>2. r \in MakeType /\ r.pc = "meta" /\ r.ver = make[c].ver /\ r.deps = make[c].deps
        /\ r.art = c /\ r.cached = make[c].cached /\ r.fresh = make[c].fresh
    BY <1>t, <1>p DEF MakeType
  <2> HIDE DEF r
  <2>3. Goes(c, "meta", c, make[c].cached, make[c].fresh)
    BY <2>1, <2>2, <1>t, GoesWith
  <2> QED
    BY <2>0, <2>d, <2>3, RegistersKeeps
<1>4. CASE WriteMeta(c)
  <2>0. At(c, "meta") /\ wlock' = [wlock EXCEPT ![Ver(c)] = IF @ = c THEN 0 ELSE @]
        /\ UNCHANGED <<codes, depOf, rebuild, overlap>> /\ Step(c, "install")
    BY <1>4 DEF WriteMeta
  <2>d. Dir(Ver(c), TRUE, disk[Ver(c)].deps)
    <3> DEFINE e == [disk[Ver(c)] EXCEPT !.dir = TRUE, !.meta = TRUE]
    <3>1. disk' = [disk EXCEPT ![Ver(c)] = e]
      BY <1>4, <1>t, <1>v, <1>0, <2>0 DEF WriteMeta, CodeTypes
    <3>2. e \in DiskType /\ e.dir = TRUE /\ e.deps = disk[Ver(c)].deps
      BY <1>v, <1>0, <2>0 DEF DiskType
    <3> HIDE DEF e
    <3> QED
      BY <3>1, <3>2, <1>v, <1>0, <2>0, <1>t, DirSet
  <2>1. Goes(c, "install", make[c].art, make[c].cached, make[c].fresh)
    BY <2>0, <1>t, <1>p, StepGoes
  <2> QED
    BY <2>0, <2>d, <2>1, MetasKeeps
<1> QED
  BY <1>1, <1>2, <1>3, <1>4

\* The end of a create whose code is not usable, as every such action takes it.
LEMMA CodeFailsKeeps ==
  ASSUME CodeInv, NEW c \in Creates, make[c].pc \in {"install", "load", "repair", "reload", "executor"},
         Step(c, "drop"), NEW gone \in BOOLEAN, gone => make[c].fresh \/ make[c].pc \in {"repair", "reload"},
         disk' = [disk EXCEPT ![Ver(c)].deps = @ /\ ~gone] \/ (~gone /\ UNCHANGED disk),
         UNCHANGED <<codes, depOf, wlock, rebuild, overlap>>
  PROVE  CodeInv'
<1>t. CodeTypes /\ make[c] \in MakeType
  BY DEF CodeInv, CodeTypes
<1>v. Ver(c) \in Versions /\ disk[Ver(c)] \in DiskType
  BY <1>t DEF CodeTypes, MakeType, Ver
<1>1. Goes(c, "drop", make[c].art, make[c].cached, make[c].fresh)
  BY <1>t, StepGoes DEF CodePcs, Making
<1>2. Dir(Ver(c), disk[Ver(c)].dir, disk[Ver(c)].deps /\ ~gone)
  <2> DEFINE e == [disk[Ver(c)] EXCEPT !.deps = @ /\ ~gone]
  <2>1. e \in DiskType /\ e.dir = disk[Ver(c)].dir /\ e.deps = (disk[Ver(c)].deps /\ ~gone)
    BY <1>v DEF DiskType
  <2>2. CASE disk' = [disk EXCEPT ![Ver(c)].deps = @ /\ ~gone]
    <3>1. disk' = [disk EXCEPT ![Ver(c)] = e]
      BY <2>2
    <3> HIDE DEF e
    <3> QED
      BY <2>1, <3>1, <1>v, <1>t, DirSet
  <2>3. CASE ~gone /\ UNCHANGED disk
    <3>1. Dir(Ver(c), disk[Ver(c)].dir, disk[Ver(c)].deps) /\ (disk[Ver(c)].deps /\ ~gone) = disk[Ver(c)].deps
      BY <2>3, <1>v, <1>t, DirSame DEF DiskType
    <3> QED
      BY <3>1
  <2> QED
    BY <2>2, <2>3
<1> QED
  BY <1>1, <1>2, FailsKeeps

\* The trial load that passes, as both actions take it.
LEMMA ReadyKeeps ==
  ASSUME CodeInv, NEW c \in Creates, make[c].pc \in {"load", "reload"}, Imports(c), Ready(c),
         UNCHANGED <<codes, wlock, rebuild, overlap>>
  PROVE  CodeInv'
<1>t. CodeTypes /\ make[c] \in MakeType
  BY DEF CodeInv, CodeTypes
<1>v. Ver(c) \in Versions /\ disk[Ver(c)] \in DiskType
  BY <1>t DEF CodeTypes, MakeType, Ver
<1>1. Goes(c, "executor", make[c].art, make[c].cached, make[c].fresh)
  <2>1. Step(c, "executor")
    BY DEF Ready, Step
  <2> QED
    BY <2>1, <1>t, StepGoes DEF CodePcs, Making
<1>2. \E dir \in BOOLEAN : (disk[Ver(c)].dir => dir) /\ Dir(Ver(c), dir, disk[Ver(c)].deps)
  <2> DEFINE e == [disk[Ver(c)] EXCEPT !.dir = TRUE, !.meta = TRUE]
  <2>1. e \in DiskType /\ e.dir = TRUE /\ e.deps = disk[Ver(c)].deps
    BY <1>v DEF DiskType
  <2>2. CASE make[c].deps # "none"
    <3>1. disk' = [disk EXCEPT ![Ver(c)] = e]
      BY <2>2, <1>v, <1>t DEF Ready, CodeTypes
    <3> HIDE DEF e
    <3>2. Dir(Ver(c), TRUE, disk[Ver(c)].deps)
      BY <2>1, <3>1, <1>v, <1>t, DirSet
    <3> QED
      BY <3>2
  <2>3. CASE make[c].deps = "none"
    <3>1. Dir(Ver(c), disk[Ver(c)].dir, disk[Ver(c)].deps) /\ disk[Ver(c)].dir \in BOOLEAN
      BY <2>3, <1>v, <1>t, DirSame DEF Ready, DiskType
    <3> QED
      BY <3>1
  <2> QED
    BY <2>2, <2>3
<1>3. depOf' = [depOf EXCEPT ![make[c].art] = make[c].deps # "none"]
  BY DEF Ready
<1>4. PICK dir \in BOOLEAN : (disk[Ver(c)].dir => dir) /\ Dir(Ver(c), dir, disk[Ver(c)].deps)
  BY <1>2
<1> QED
  BY <1>1, <1>3, <1>4, ReadiesKeeps

\* The installation of dependencies and the trial loads.
LEMMA ReadyingKeeps ==
  ASSUME CodeInv, NEW c \in Creates, NEW ok \in BOOLEAN,
         Install(c, ok) \/ LoadCode(c, ok) \/ Repair(c, ok) \/ Reload(c, ok)
  PROVE  CodeInv'
<1>t. CodeTypes /\ make[c] \in MakeType
  BY DEF CodeInv, CodeTypes
<1>0. make[c].pc \in {"install", "load", "repair", "reload"}
  BY DEF Install, LoadCode, Repair, Reload, At
<1>v. Ver(c) \in Versions /\ disk[Ver(c)] \in DiskType
  BY <1>t, <1>0 DEF CodeTypes, MakeType, Ver
<1>p. {"load", "repair", "reload"} \subseteq CodePcs
  BY DEF CodePcs, Making
<1>f. [disk EXCEPT ![Ver(c)].deps = FALSE] = [disk EXCEPT ![Ver(c)].deps = @ /\ ~TRUE]
  OBVIOUS
<1>i. disk' = [disk EXCEPT ![Ver(c)].dir = TRUE, ![Ver(c)].deps = TRUE] => Dir(Ver(c), TRUE, TRUE)
  <2> DEFINE e == [disk[Ver(c)] EXCEPT !.dir = TRUE, !.deps = TRUE]
  <2>1. e \in DiskType /\ e.dir = TRUE /\ e.deps = TRUE
    BY <1>v DEF DiskType
  <2>2. [disk EXCEPT ![Ver(c)].dir = TRUE, ![Ver(c)].deps = TRUE] = [disk EXCEPT ![Ver(c)] = e]
    BY <1>v, <1>t DEF CodeTypes
  <2> HIDE DEF e
  <2> QED
    BY <2>1, <2>2, <1>v, <1>t, DirSet
<1>s. UNCHANGED disk => Dir(Ver(c), disk[Ver(c)].dir, disk[Ver(c)].deps)
  BY <1>v, <1>t, DirSame
<1>1. CASE Install(c, ok)
  <2> DEFINE needed == make[c].deps # "none" /\ ~depOf[make[c].art]
  <2>0. At(c, "install") /\ UNCHANGED <<codes, depOf, wlock, rebuild, overlap>>
    BY <1>1 DEF Install
  <2>1. CASE needed /\ ~ok
    BY <2>1, <1>1, <2>0, CodeFailsKeeps DEF Install, CodeFails, At
  <2>2. CASE ~(needed /\ ~ok)
    <3> DEFINE r == [make[c] EXCEPT !.pc = "load", !.fresh = needed]
    <3>1. make' = [make EXCEPT ![c] = r]
          /\ disk' = IF needed THEN [disk EXCEPT ![Ver(c)].dir = TRUE, ![Ver(c)].deps = TRUE] ELSE disk
      BY <1>1, <2>2, <1>t DEF Install, CodeTypes
    <3>2. r \in MakeType /\ r.pc = "load" /\ r.ver = make[c].ver /\ r.deps = make[c].deps
          /\ r.art = make[c].art /\ r.cached = make[c].cached /\ r.fresh = needed
      BY <1>t, <1>p DEF MakeType
    <3> HIDE DEF r
    <3>3. Goes(c, "load", make[c].art, make[c].cached, needed)
      BY <3>1, <3>2, <1>t, GoesWith
    <3>4. CASE needed
      <4>1. Dir(Ver(c), TRUE, TRUE) /\ Goes(c, "load", make[c].art, make[c].cached, TRUE)
        BY <3>1, <3>3, <3>4, <1>i
      <4> QED
        BY <2>0, <3>4, <4>1, InstallsKeeps
    <3>5. CASE ~needed
      <4>1. Dir(Ver(c), disk[Ver(c)].dir, disk[Ver(c)].deps) /\ Goes(c, "load", make[c].art, make[c].cached, FALSE)
        BY <3>1, <3>3, <3>5, <1>s
      <4>2. make[c].deps = "none" \/ depOf[make[c].art]
        BY <3>5
      <4> QED
        BY <2>0, <4>2, <4>1, HasAllKeeps
    <3> QED
      BY <3>4, <3>5
  <2> QED
    BY <2>1, <2>2
<1>2. CASE LoadCode(c, ok)
  <2>0. At(c, "load") /\ make[c].pc = "load" /\ UNCHANGED <<codes, wlock, rebuild, overlap>>
    BY <1>2 DEF LoadCode, At
  <2>1. CASE ok /\ Imports(c)
    <3>1. Ready(c)
      BY <1>2, <2>1 DEF LoadCode
    <3> QED
      BY <2>0, <2>1, <3>1, ReadyKeeps
  <2>2. CASE ~Imports(c)
    <3>1. Step(c, "repair") /\ UNCHANGED <<disk, depOf>>
      BY <1>2, <2>2 DEF LoadCode
    <3>2. Goes(c, "repair", make[c].art, make[c].cached, make[c].fresh)
      BY <3>1, <1>t, <1>p, StepGoes
    <3> QED
      BY <2>0, <2>2, <3>1, <3>2, <1>s, LacksKeeps
  <2>3. CASE ~ok /\ Imports(c)
    <3>1. Step(c, "drop") /\ disk' = [disk EXCEPT ![Ver(c)].deps = @ /\ ~make[c].fresh] /\ UNCHANGED depOf
      BY <1>2, <2>3 DEF LoadCode, CodeFails
    <3>2. make[c].fresh \in BOOLEAN
      BY <1>t DEF MakeType
    <3> QED
      BY <2>0, <3>1, <3>2, CodeFailsKeeps
  <2> QED
    BY <2>1, <2>2, <2>3
<1>3. CASE Repair(c, ok)
  <2>0. At(c, "repair") /\ make[c].pc = "repair" /\ UNCHANGED <<codes, depOf, wlock, rebuild, overlap>>
    BY <1>3 DEF Repair, At
  <2>1. CASE ok
    <3>1. Step(c, "reload") /\ disk' = [disk EXCEPT ![Ver(c)].dir = TRUE, ![Ver(c)].deps = TRUE]
      BY <1>3, <2>1 DEF Repair
    <3>2. Goes(c, "reload", make[c].art, make[c].cached, make[c].fresh)
      BY <3>1, <1>t, <1>p, StepGoes
    <3> QED
      BY <2>0, <3>1, <3>2, <1>i, RepairsKeeps
  <2>2. CASE ~ok
    <3>1. Step(c, "drop") /\ disk' = [disk EXCEPT ![Ver(c)].deps = @ /\ ~TRUE]
      BY <1>3, <2>2, <1>f DEF Repair, CodeFails
    <3> QED
      BY <2>0, <3>1, CodeFailsKeeps
  <2> QED
    BY <2>1, <2>2
<1>4. CASE Reload(c, ok)
  <2>0. At(c, "reload") /\ make[c].pc = "reload" /\ UNCHANGED <<codes, wlock, rebuild, overlap>>
    BY <1>4 DEF Reload, At
  <2>1. CASE ok /\ Imports(c)
    <3>1. Ready(c)
      BY <1>4, <2>1 DEF Reload
    <3> QED
      BY <2>0, <2>1, <3>1, ReadyKeeps
  <2>2. CASE ~(ok /\ Imports(c))
    <3>1. Step(c, "drop") /\ disk' = [disk EXCEPT ![Ver(c)].deps = @ /\ ~TRUE] /\ UNCHANGED depOf
      BY <1>4, <2>2, <1>f DEF Reload, CodeFails
    <3> QED
      BY <2>0, <3>1, CodeFailsKeeps
  <2> QED
    BY <2>1, <2>2
<1> QED
  BY <1>1, <1>2, <1>3, <1>4

\* The end of a create and of a session.
LEMMA EndKeeps ==
  ASSUME CodeInv, NEW c \in Creates,
         Executor(c) \/ NoExecutor(c) \/ Drop(c) \/ Rmtree(c) \/ StopSession(c)
  PROVE  CodeInv'
<1>t. CodeTypes /\ make[c] \in MakeType
  BY DEF CodeInv, CodeTypes
<1>0. make[c].pc \in {"executor", "drop", "rmtree", "live"} /\ UNCHANGED <<depOf, wlock, rebuild, overlap>>
  BY DEF Executor, NoExecutor, Drop, Rmtree, StopSession, At
<1>v. Ver(c) \in Versions /\ disk[Ver(c)] \in DiskType
  BY <1>t, <1>0 DEF CodeTypes, MakeType, Ver
<1>p. {"live", "drop", "failed", "rmtree", "stopped"} \subseteq CodePcs
  BY DEF CodePcs, Making
<1>s. UNCHANGED disk => Dir(Ver(c), disk[Ver(c)].dir, disk[Ver(c)].deps)
  BY <1>v, <1>t, DirSame
<1>g. ASSUME NEW l \in CodePcs, Step(c, l) PROVE Goes(c, l, make[c].art, make[c].cached, make[c].fresh)
  BY <1>g, <1>t, StepGoes
<1>1. CASE Executor(c)
  <2>1. At(c, "executor") /\ Step(c, "live") /\ UNCHANGED <<codes, disk>>
    BY <1>1 DEF Executor
  <2>2. Goes(c, "live", make[c].art, make[c].cached, make[c].fresh)
    BY <2>1, <1>p, <1>g
  <2> QED
    BY <2>1, <2>2, <1>0, <1>s, StartsKeeps
<1>2. CASE NoExecutor(c)
  <2>0. make[c].pc = "executor" /\ UNCHANGED <<codes, disk>>
    BY <1>2 DEF NoExecutor, At
  <2>1. CASE make[c].async
    <3>1. Step(c, "drop")
      BY <1>2, <2>1 DEF NoExecutor
    <3> QED
      BY <2>0, <3>1, <1>0, CodeFailsKeeps
  <2>2. CASE ~make[c].async
    <3>1. Step(c, "failed")
      BY <1>2, <2>2 DEF NoExecutor
    <3>2. Goes(c, "failed", make[c].art, make[c].cached, make[c].fresh)
      BY <3>1, <1>p, <1>g
    <3> QED
      BY <2>0, <3>2, <1>0, <1>s, LeavesKeeps
  <2> QED
    BY <2>1, <2>2
<1>3. CASE Drop(c)
  <2>0. At(c, "drop") /\ UNCHANGED disk
    BY <1>3 DEF Drop
  <2>1. CASE make[c].cached
    <3>1. Step(c, "failed") /\ UNCHANGED codes
      BY <1>3, <2>1 DEF Drop
    <3>2. Goes(c, "failed", make[c].art, make[c].cached, make[c].fresh)
      BY <3>1, <1>p, <1>g
    <3> QED
      BY <2>0, <2>1, <3>1, <3>2, <1>0, <1>s, LeavesKeeps
  <2>2. CASE ~make[c].cached
    <3>1. Step(c, "rmtree") /\ codes' = [codes EXCEPT ![Ver(c)] = IF @ = make[c].art THEN 0 ELSE @]
      BY <1>3, <2>2 DEF Drop
    <3>2. Goes(c, "rmtree", make[c].art, make[c].cached, make[c].fresh)
      BY <3>1, <1>p, <1>g
    <3> QED
      BY <2>0, <2>2, <3>1, <3>2, <1>0, <1>s, DropsKeeps
  <2> QED
    BY <2>1, <2>2
<1>4. CASE Rmtree(c)
  <2>1. At(c, "rmtree") /\ Step(c, "failed") /\ disk' = [disk EXCEPT ![Ver(c)] = Bare] /\ UNCHANGED codes
    BY <1>4 DEF Rmtree
  <2>2. Goes(c, "failed", make[c].art, make[c].cached, make[c].fresh)
    BY <2>1, <1>p, <1>g
  <2>3. Bare \in DiskType /\ Bare.dir = FALSE /\ Bare.deps = FALSE
    BY DEF Bare, DiskType
  <2>4. Dir(Ver(c), FALSE, FALSE)
    BY <2>1, <2>3, <1>t, <1>v, DirSet
  <2> QED
    BY <2>1, <2>2, <2>4, <1>0, RemovesKeeps
<1>5. CASE StopSession(c)
  <2>1. make[c].pc = "live" /\ Step(c, "stopped") /\ UNCHANGED <<codes, disk>>
    BY <1>5 DEF StopSession, At
  <2>2. Goes(c, "stopped", make[c].art, make[c].cached, make[c].fresh)
    BY <2>1, <1>p, <1>g
  <2> QED
    BY <2>1, <2>2, <1>0, <1>s, LeavesKeeps
<1> QED
  BY <1>1, <1>2, <1>3, <1>4, <1>5

\* On a node without code, and after every step.
LEMMA CodeInitHolds == CodeInit => CodeInv
<1> SUFFICES ASSUME CodeInit PROVE CodeInv
  OBVIOUS
<1> USE NodeCodeAssumption DEF CodeInit, Ver, Making, Using
<1>1. NewMake \in MakeType /\ NewMake.pc = "new" /\ NewMake.ver = 0
  BY DEF NewMake, MakeType, CodePcs, Deps
<1>2. \A c \in Creates : make[c] = NewMake
  OBVIOUS
<1>3. Bare \in DiskType
  BY DEF Bare, DiskType
<1>4. CodeTypes
  BY <1>1, <1>2, <1>3 DEF CodeTypes
<1>5. Locked
  BY <1>1, <1>2 DEF Locked
<1>6. OneAtATime /\ Registered
  BY <1>1, <1>2 DEF OneAtATime, Registered
<1>7. BringsFirst
  BY <1>1, <1>2 DEF BringsFirst, Bringing
<1>8. UsedComplete /\ RestComplete
  BY <1>1, <1>2 DEF UsedComplete, UsedOk, RestComplete, RestOk
<1> QED
  BY <1>4, <1>5, <1>6, <1>7, <1>8 DEF CodeInv, CodeSound

\* Every step keeps the invariant of the code on a node.
LEMMA CodeStepHolds == CodeInv /\ [CodeNext]_codeVars => CodeInv'
<1> SUFFICES ASSUME CodeInv, [CodeNext]_codeVars PROVE CodeInv'
  OBVIOUS
<1>1. CASE UNCHANGED codeVars
  <2> USE <1>1 DEF codeVars
  <2>1. CodeTypes' /\ Locked'
    BY DEF CodeInv, CodeTypes, Locked, Ver
  <2>2. OneAtATime' = OneAtATime /\ Registered' = Registered /\ BringsFirst' = BringsFirst
    BY DEF OneAtATime, Registered, BringsFirst, Bringing, Ver
  <2>3. UsedComplete' = UsedComplete /\ RestComplete' = RestComplete
    BY DEF UsedComplete, UsedOk, RestComplete, RestOk, Complete, Imports, Bringing, Ver
  <2> QED
    BY <2>1, <2>2, <2>3 DEF CodeInv, CodeSound
<1>2. CASE RebuildBegins \/ RebuildEnds
  BY <1>2, RebuildKeeps
<1>3. ASSUME NEW c \in Creates, CreateStep(c) PROVE CodeInv'
  <2>1. CASE \E v \in Versions, deps \in Deps, async \in BOOLEAN : Upload(c, v, deps, async)
    BY <2>1, UploadKeeps
  <2>2. CASE Lookup(c) \/ WriteFiles(c) \/ FilesFail(c) \/ Register(c) \/ WriteMeta(c)
    BY <2>2, PutCodeKeeps
  <2>3. CASE \E ok \in BOOLEAN : Install(c, ok) \/ LoadCode(c, ok) \/ Repair(c, ok) \/ Reload(c, ok)
    BY <2>3, ReadyingKeeps
  <2>4. CASE Executor(c) \/ NoExecutor(c) \/ Drop(c) \/ Rmtree(c) \/ StopSession(c)
    BY <2>4, EndKeeps
  <2> QED
    BY <1>3, <2>1, <2>2, <2>3, <2>4 DEF CreateStep
<1> QED
  BY <1>1, <1>2, <1>3 DEF CodeNext

\* The invariant of a node's code: types, the write locks, and, as long as no two
\* creates of a version were under way together, that what is used is registered
\* and complete.
THEOREM CodeInvariant == CodeSpec => []CodeInv
BY CodeInitHolds, CodeStepHolds, PTL DEF CodeSpec

\* What a running service or pool needs stays on the node: no create that fails,
\* neither before it nor after, takes its artifact, its directory or its
\* dependencies (_discard_new_code_artifact).
THEOREM CodeStays == CodeSpec => []CodeKept
<1>1. CodeInv => CodeKept
  BY DEF CodeInv, CodeSound, CodeKept, Registered, UsedComplete, UsedOk, Complete, Ver, Using
<1> QED
  BY <1>1, CodeInvariant, PTL

\* A registered artifact is never replaced by another one: the registration has the
\* write locks and finds the version empty (put_code_from_uploaded_file).
THEOREM ArtifactStays == CodeSpec => OneArtifact
<1> DEFINE Same == \A v \in Versions : codes[v] # 0 /\ codes'[v] # 0 => codes'[v] = codes[v]
<1>1. CodeInv /\ [CodeNext]_codeVars => Same
  <2> SUFFICES ASSUME CodeInv, [CodeNext]_codeVars PROVE Same
    OBVIOUS
  <2>t. codes \in [Versions -> Creates \cup {0}]
    BY DEF CodeInv, CodeTypes
  <2>1. CASE UNCHANGED codes
    BY <2>1
  <2>2. ASSUME NEW c \in Creates, Register(c) PROVE Same
    <3>1. codes[Ver(c)] = 0
      BY <2>2 DEF Register, At, CodeInv, Locked
    <3>2. \A v \in Versions : v # Ver(c) => codes'[v] = codes[v]
      BY <2>2, <2>t DEF Register
    <3> QED
      BY <3>1, <3>2
  <2>3. ASSUME NEW c \in Creates, Drop(c) PROVE Same
    <3>1. CASE UNCHANGED codes
      BY <3>1
    <3>2. CASE codes' = [codes EXCEPT ![Ver(c)] = IF @ = make[c].art THEN 0 ELSE @]
      BY <3>2, <2>t
    <3> QED
      BY <2>3, <3>1, <3>2 DEF Drop
  <2>4. UNCHANGED codes \/ \E c \in Creates : Register(c) \/ Drop(c)
    BY DEF codeVars, CodeNext, CreateStep, Upload, Lookup, WriteFiles, FilesFail, WriteMeta, Install, LoadCode,
           Repair, Reload, Executor, NoExecutor, Rmtree, StopSession, RebuildBegins, RebuildEnds
  <2> QED
    BY <2>1, <2>2, <2>3, <2>4
<1>2. CodeInv /\ [CodeNext]_codeVars => [Same]_codeVars
  BY <1>1
<1> QED
  BY <1>2, CodeInvariant, PTL DEF CodeSpec, OneArtifact

-----------------------------------------------------------------------------
(* ReplicaSession. *)

\* A heartbeat names its node, its replica and where it is.
Beat(t) == t = [node |-> t.node, h |-> t.h, at |-> t.at]
SessionInv == NothingPilesUp /\ \A t \in hb : Beat(t)

\* A step that only removes heartbeats, or moves one on, keeps one per node.
LEMMA FewerBeats ==
  ASSUME SessionInv, NEW t \in hb, NEW at, hb' \subseteq Moved(t, at)
  PROVE  OneHeartbeat' /\ \A u \in hb' : Beat(u)
<1> DEFINE m == [t EXCEPT !.at = at]
<1>1. m.node = t.node /\ Beat(m)
  BY DEF SessionInv, Beat
<1>2. hb' \subseteq (hb \ {t}) \cup {m}
  BY DEF Moved
<1> HIDE DEF m
<1> QED
  BY <1>1, <1>2 DEF SessionInv, NothingPilesUp, OneHeartbeat, Beat

\* A step that leaves the heartbeats alone and deploys at most one replica, to a
\* node without one of its kind.
LEMMA OneMore ==
  ASSUME SessionInv, UNCHANGED hb, NEW n, NEW id,
         live' \subseteq live \/ (Made(n) = {} /\ live' = live \cup {[id |-> id, node |-> n, comp |-> TRUE]})
  PROVE  SessionInv'
<1>1. OneHeartbeat' /\ \A u \in hb' : Beat(u)
  BY DEF SessionInv, NothingPilesUp, OneHeartbeat
<1>2. NoPileUp'
  <2> DEFINE new == [id |-> id, node |-> n, comp |-> TRUE]
  <2>1. \A r \in live : r.comp => r.node # n
        \/ live' \subseteq live
    BY DEF Made
  <2>2. new.node = n
    OBVIOUS
  <2>3. live' \subseteq live \/ live' = live \cup {new}
    OBVIOUS
  <2> HIDE DEF new
  <2> QED
    BY <2>1, <2>2, <2>3 DEF SessionInv, NothingPilesUp, NoPileUp
<1> QED
  BY <1>1, <1>2 DEF SessionInv, NothingPilesUp, Beat

\* A session starts with nothing piled up.
LEMMA SessionInitHolds == Init => SessionInv
<1> SUFFICES ASSUME Init PROVE SessionInv
  OBVIOUS
<1>1. hb = {} /\ \A r \in live : ~r.comp
  BY DEF Init
<1> QED
  BY <1>1 DEF SessionInv, NothingPilesUp, OneHeartbeat, NoPileUp

\* The steps of the keepalive thread keep the invariant.
LEMMA KeepaliveHolds ==
  ASSUME SessionInv, Keepalive \/ \E t \in hb : StaleEnds(t)
  PROVE  SessionInv'
<1>l. live' = live
  BY DEF Keepalive, TickBegins, KeepaliveEnds, Scan, MarkAnswer, TickEnds, StaleEnds
<1>p. NoPileUp'
  BY <1>l DEF SessionInv, NothingPilesUp, NoPileUp
<1>1. CASE TickBegins \/ MarkAnswer
  <2>1. UNCHANGED hb
    BY <1>1 DEF TickBegins, MarkAnswer
  <2> QED
    BY <2>1, <1>p DEF SessionInv, NothingPilesUp, OneHeartbeat, Beat
<1>2. CASE KeepaliveEnds
  <2>1. hb' = {[t EXCEPT !.at = "stale"] : t \in hb}
    BY <1>2 DEF KeepaliveEnds
  <2>2. ASSUME NEW u \in hb' PROVE \E t \in hb : u = [node |-> t.node, h |-> t.h, at |-> "stale"]
    <3>1. PICK t \in hb : u = [t EXCEPT !.at = "stale"]
      BY <2>1
    <3>2. u = [node |-> t.node, h |-> t.h, at |-> "stale"]
      BY <3>1 DEF SessionInv, Beat
    <3> QED
      BY <3>2
  <2>3. \A u \in hb' : Beat(u)
    BY <2>2 DEF Beat
  <2>4. ASSUME NEW u \in hb', NEW w \in hb', u.node = w.node PROVE u = w
    <3>1. PICK t \in hb : u = [node |-> t.node, h |-> t.h, at |-> "stale"]
      BY <2>2
    <3>2. PICK s \in hb : w = [node |-> s.node, h |-> s.h, at |-> "stale"]
      BY <2>2
    <3>3. t.node = s.node
      BY <3>1, <3>2, <2>4
    <3>4. t = s
      BY <3>3 DEF SessionInv, NothingPilesUp, OneHeartbeat
    <3> QED
      BY <3>1, <3>2, <3>4
  <2> QED
    BY <2>3, <2>4, <1>p DEF SessionInv, NothingPilesUp, OneHeartbeat, Beat
<1>3. ASSUME NEW t \in hb, Scan(t) \/ StaleEnds(t) PROVE SessionInv'
  <2>1. \E at \in {"stale", "running"} : hb' \subseteq Moved(t, at)
    BY <1>3 DEF Scan, StaleEnds, Moved
  <2>2. PICK at \in {"stale", "running"} : hb' \subseteq Moved(t, at)
    BY <2>1
  <2>3. OneHeartbeat' /\ \A u \in hb' : Beat(u)
    BY <2>2, FewerBeats
  <2> QED
    BY <2>3, <1>p DEF SessionInv, NothingPilesUp, Beat
<1>4. CASE TickEnds
  <2> DEFINE New == {[node |-> n, h |-> rep[n], at |-> "pending"] : n \in {m \in Free : rep[m] # NoHandle}}
  <2>1. hb' = hb \cup New
    BY <1>4 DEF TickEnds, Beaten
  <2>2. \A u \in New : Beat(u) /\ u = [node |-> u.node, h |-> rep[u.node], at |-> "pending"]
    BY DEF Beat
  <2>3. \A u \in New : \A t \in hb : t.node # u.node
    BY DEF Free, Busy
  <2> HIDE DEF New
  <2>4. \A u, w \in New : u.node = w.node => u = w
    BY <2>2
  <2> QED
    BY <2>1, <2>2, <2>3, <2>4, <1>p DEF SessionInv, NothingPilesUp, OneHeartbeat, Beat
<1> QED
  BY <1>1, <1>2, <1>3, <1>4 DEF Keepalive

\* The other steps leave the heartbeats alone; only a create deploys.
LEMMA OthersHold ==
  ASSUME SessionInv, Compensation \/ Elsewhere
  PROVE  SessionInv'
<1>1. ASSUME NEW n \in Nodes, CreateOk(n) PROVE SessionInv'
  <2>1. UNCHANGED hb
    BY <1>1 DEF CreateOk
  <2>2. CASE Made(n) # {}
    <3>1. live' \subseteq live
      BY <1>1, <2>2 DEF CreateOk
    <3> QED
      BY <2>1, <3>1, OneMore
  <2>3. CASE Made(n) = {}
    <3>1. live' = live \cup {[id |-> NewId, node |-> n, comp |-> TRUE]}
      BY <1>1, <2>3 DEF CreateOk
    <3> QED
      BY <2>1, <2>3, <3>1, OneMore
  <2> QED
    BY <2>2, <2>3
<1>2. ASSUME NEW n \in Nodes, CreateFails(n) PROVE SessionInv'
  <2>1. UNCHANGED hb
    BY <1>2 DEF CreateFails
  <2>2. live' \subseteq live \/ (Made(n) = {} /\ live' = live \cup {[id |-> NewId, node |-> n, comp |-> TRUE]})
    <3>1. UNCHANGED live \/ live' \in {live} \cup (IF Made(n) # {} THEN {}
                                      ELSE {live \cup {[id |-> NewId, node |-> n, comp |-> TRUE]}})
      BY <1>2 DEF CreateFails
    <3> QED
      BY <3>1
  <2> QED
    BY <2>1, <2>2, OneMore
<1>3. CASE CompStart \/ CompFails \/ CompList \/ Settle \/ CompDone
  <2>1. UNCHANGED hb
    BY <1>3 DEF CompStart, CompFails, CompList, Settle, CompDone, Take, Insert, NoInsert
  <2>2. live' \subseteq live
    <3>1. \A S : \A L \in Dropped(S) : L \subseteq live
      BY DEF Dropped
    <3>2. CASE CompStart \/ CompFails \/ CompList \/ CompDone \/ Insert
      BY <3>2 DEF CompStart, CompFails, CompList, CompDone, Insert
    <3>3. CASE NoInsert
      BY <3>1, <3>3 DEF NoInsert
    <3>4. ASSUME NEW g \in comp.got, Take(g) PROVE live' \subseteq live
      <4>1. live' \in Dropped({g.id}) \/ live' = live \/ live' \in Dropped({rep[g.node].id})
        BY <3>4 DEF Take
      <4> QED
        BY <3>1, <4>1
    <3> QED
      BY <1>3, <3>2, <3>3, <3>4 DEF Settle
  <2> QED
    BY <2>1, <2>2, OneMore
<1>4. CASE Elsewhere
  <2>1. UNCHANGED hb
    BY <1>4 DEF Elsewhere, Close, ProbeAges, Lapse, HostDies, Restart
  <2>2. live' \subseteq live
    BY <1>4 DEF Elsewhere, Close, ProbeAges, Lapse, HostDies, Restart
  <2> QED
    BY <2>1, <2>2, OneMore
<1> QED
  BY <1>1, <1>2, <1>3, <1>4 DEF Compensation, Create

\* What is tried again does not pile up: a node carries at most one heartbeat thread
\* of the session (_run_heartbeat_tick) and runs at most one replica made by
\* compensation (create_request_ids), whatever fails, times out, is replaced or is
\* closed in between.
THEOREM SessionBounded == Spec => []NothingPilesUp
<1>1. SessionInv /\ [Next]_vars => SessionInv'
  <2> SUFFICES ASSUME SessionInv, [Next]_vars PROVE SessionInv'
    OBVIOUS
  <2>1. CASE UNCHANGED vars
    BY <2>1 DEF vars, SessionInv, NothingPilesUp, OneHeartbeat, NoPileUp, Beat
  <2> QED
    BY <2>1, KeepaliveHolds, OthersHold DEF Next
<1>2. SessionInv => NothingPilesUp
  BY DEF SessionInv
<1> QED
  BY <1>1, <1>2, SessionInitHolds, PTL DEF Spec

-----------------------------------------------------------------------------
(* Packaging. *)

Archive == UNION {[S -> Nat] : S \in SUBSET Files}
Text    == [ver : Nat, mtime : Nat, imports : SUBSET Files]
Tops    == {Top[f] : f \in Files}
PackPcs == {"new", "collect", "expand", "key", "lookup", "write", "done", "old"}
Caller  == [pc : PackPcs, todo : SUBSET Files, seen : SUBSET Files, tops : SUBSET Tops,
            key : Archive, out : Archive, edited : BOOLEAN]

\* A set of modules holds a self-contained package of the entry.
HoldsProgram(S) == \E T \in SUBSET S : Entry \in T /\ Closed(T)

\* An archive is at least as new as its key, and no newer than the files.
Between(key, out) == \A f \in DOMAIN out : f \in DOMAIN key /\ key[f] <= out[f] /\ out[f] <= src[f].ver

\* What a call has found, unless a file has changed since it began.
CallerOk(q) ==
  /\ q.pc = "collect" => Entry \in q.seen \cup q.todo
  /\ q.pc = "collect" /\ ~q.edited
       => \A f \in q.seen : Parents[f] \cup src[f].imports \subseteq q.seen \cup q.todo
  /\ q.pc \in {"expand", "key", "lookup", "write"} /\ ~q.edited => HoldsProgram(q.seen)
  /\ q.pc \in {"lookup", "write"} => DOMAIN q.key = q.seen /\ Between(q.key, q.out)
  /\ q.pc \in {"lookup", "write"} => \A f \in q.seen : q.key[f] <= src[f].ver
  /\ q.pc \in {"lookup", "write"} /\ ~q.edited => \A f \in q.seen : q.key[f] = src[f].ver
  /\ q.pc \in {"collect", "expand", "key", "lookup"} => q.out = None
  /\ q.pc = "done" /\ ~q.edited => HoldsProgram(DOMAIN q.out) /\ \A f \in DOMAIN q.out : q.out[f] = src[f].ver

PackTypes ==
  /\ src \in [Files -> Text] /\ edits \in Nat
  /\ packer \in [Packers -> Caller]
  /\ cache \in Seq([key : Archive, out : Archive])

PackInv ==
  /\ PackTypes
  /\ \A f \in Files : src[f].mtime = src[f].ver /\ src[f].ver <= edits
  /\ \A i \in DOMAIN cache : DOMAIN cache[i].key = DOMAIN cache[i].out /\ Between(cache[i].key, cache[i].out)
  /\ \A p \in Packers : CallerOk(packer[p])

\* What an archive is.
LEMMA ArchiveOf ==
  ASSUME NEW S \in SUBSET Files, NEW f \in [S -> Nat]
  PROVE  f \in Archive
<1>1. [S -> Nat] \in {[R -> Nat] : R \in SUBSET Files}
  OBVIOUS
<1> QED
  BY <1>1 DEF Archive

\* An archive has numbers for some of the files.
LEMMA ArchiveHas ==
  ASSUME NEW f \in Archive
  PROVE  DOMAIN f \in SUBSET Files /\ f \in [DOMAIN f -> Nat]
<1>1. PICK S \in SUBSET Files : f \in [S -> Nat]
  BY DEF Archive
<1>2. DOMAIN f = S
  BY <1>1
<1> QED
  BY <1>1, <1>2

\* A step of one call that leaves the files and the cache alone.
LEMMA CallerSteps ==
  ASSUME PackInv, NEW p \in Packers, NEW q \in Caller, packer' = [packer EXCEPT ![p] = q],
         CallerOk(q), UNCHANGED <<src, edits, cache>>
  PROVE  PackInv'
<1>1. PackTypes'
  BY DEF PackInv, PackTypes
<1>2. ASSUME NEW d \in Packers PROVE CallerOk(packer[d])'
  <2>1. CallerOk(packer'[d])
    BY DEF PackInv, PackTypes
  <2> QED
    BY <2>1 DEF CallerOk, Between, HoldsProgram, Closed
<1>3. \A i \in DOMAIN cache : DOMAIN cache[i].key = DOMAIN cache[i].out /\ Between(cache[i].key, cache[i].out)
  BY DEF PackInv
<1>4. (\A i \in DOMAIN cache : DOMAIN cache[i].key = DOMAIN cache[i].out /\ Between(cache[i].key, cache[i].out))'
  BY <1>3 DEF Between
<1>5. (\A f \in Files : src[f].mtime = src[f].ver /\ src[f].ver <= edits)'
  BY DEF PackInv
<1> QED
  BY <1>1, <1>2, <1>4, <1>5 DEF PackInv

\* The collection of the modules.
LEMMA CollectHolds ==
  ASSUME PackInv, NEW p \in Packers, Pack(p) \/ (\E f \in Files : Visit(p, f)) \/ Expand(p)
  PROVE  PackInv'
<1> USE PackagingAssumption
<1>t. packer \in [Packers -> Caller] /\ packer[p] \in Caller /\ CallerOk(packer[p]) /\ src \in [Files -> Text]
  BY DEF PackInv, PackTypes
<1>n. None \in Archive /\ DOMAIN None = {}
  <2>1. None \in [{} -> Nat] /\ DOMAIN None = {} /\ {} \in SUBSET Files
    BY DEF None
  <2> QED
    BY <2>1, ArchiveOf
<1>1. CASE Pack(p)
  <2> DEFINE q == [NewPacker EXCEPT !.pc = "collect", !.todo = {Entry}]
  <2>1. packer' = [packer EXCEPT ![p] = q] /\ UNCHANGED <<src, edits, cache>>
    BY <1>1 DEF Pack
  <2>2. /\ q.pc = "collect" /\ q.todo = {Entry} /\ q.seen = {} /\ q.tops = {} /\ q.key = None
        /\ q.out = None /\ q.edited = FALSE
    BY DEF NewPacker
  <2>3. q \in Caller
    BY <1>n DEF NewPacker, Caller, PackPcs
  <2> HIDE DEF q
  <2>4. CallerOk(q)
    BY <2>2 DEF CallerOk
  <2> QED
    BY <2>1, <2>3, <2>4, CallerSteps
<1>2. ASSUME NEW f \in Files, Visit(p, f) PROVE PackInv'
  <2> DEFINE more == (packer[p].todo \cup Parents[f] \cup src[f].imports) \ (packer[p].seen \cup {f})
             q == [packer[p] EXCEPT !.seen = @ \cup {f}, !.todo = more]
  <2>0. packer[p].pc = "collect" /\ f \in packer[p].todo
    BY <1>2 DEF Visit
  <2>1. packer' = [packer EXCEPT ![p] = q] /\ UNCHANGED <<src, edits, cache>>
    BY <1>2, <1>t DEF Visit
  <2>m. more \subseteq Files
    BY <1>t DEF Caller, Text
  <2>2. /\ q.pc = "collect" /\ q.todo = more /\ q.seen = packer[p].seen \cup {f} /\ q.tops = packer[p].tops
        /\ q.key = packer[p].key /\ q.out = packer[p].out /\ q.edited = packer[p].edited
    BY <1>t, <2>0 DEF Caller
  <2>3. q \in Caller
    <3> DEFINE F == SUBSET Files
    <3>1. more \in F /\ packer[p].seen \cup {f} \in F
      BY <1>t, <2>m DEF Caller
    <3>2. packer[p] \in [pc : PackPcs, todo : F, seen : F, tops : SUBSET Tops,
            key : Archive, out : Archive, edited : BOOLEAN]
      BY <1>t DEF Caller
    <3> HIDE DEF F, more
    <3>3. q \in [pc : PackPcs, todo : F, seen : F, tops : SUBSET Tops,
            key : Archive, out : Archive, edited : BOOLEAN]
      BY <3>1, <3>2
    <3> QED
      BY <3>3 DEF F, Caller
  <2> HIDE DEF q
  <2>4. CallerOk(q)
    <3>1. Entry \in q.seen \cup q.todo
      BY <1>t, <2>0, <2>2 DEF CallerOk
    <3>2. ASSUME ~q.edited, NEW g \in q.seen PROVE Parents[g] \cup src[g].imports \subseteq q.seen \cup q.todo
      <4>1. CASE g = f
        BY <4>1, <2>2
      <4>2. CASE g # f
        BY <4>2, <2>2, <2>0, <1>t, <3>2 DEF CallerOk
      <4> QED
        BY <4>1, <4>2
    <3> QED
      BY <3>1, <3>2, <2>2, <2>0, <1>t DEF CallerOk
  <2> QED
    BY <2>1, <2>3, <2>4, CallerSteps
<1>3. CASE Expand(p)
  <2> DEFINE tops  == {Top[g] : g \in UNION {src[f].imports : f \in Entries(p)}}
                        \cup {Top[f] : f \in Entries(p) \ {Entry}}
             fresh == {g \in Project : Top[g] \in tops \ packer[p].tops} \ Entries(p)
             l == IF fresh = {} THEN "key" ELSE "expand"
             q == [packer[p] EXCEPT !.pc = l, !.seen = @ \cup fresh, !.tops = @ \cup tops]
  <2>0. packer[p].pc \in {"collect", "expand"} /\ packer[p].todo = {}
    BY <1>3 DEF Expand
  <2>1. packer' = [packer EXCEPT ![p] = q] /\ UNCHANGED <<src, edits, cache>>
    BY <1>3, <1>t DEF Expand
  <2>p. tops \subseteq Tops /\ fresh \subseteq Files /\ l \in {"key", "expand"}
    BY <1>t DEF Tops, Text, Entries, Caller
  <2> HIDE DEF tops, fresh, l
  <2>2. /\ q.pc = l /\ q.todo = {} /\ q.seen = packer[p].seen \cup fresh /\ q.tops = packer[p].tops \cup tops
        /\ q.key = packer[p].key /\ q.out = packer[p].out /\ q.edited = packer[p].edited
    BY <1>t, <2>0 DEF Caller
  <2>3. q \in Caller
    <3> DEFINE F == SUBSET Files
               T == SUBSET Tops
    <3>1. packer[p].seen \cup fresh \in F /\ packer[p].tops \cup tops \in T
      BY <1>t, <2>p DEF Caller
    <3>2. packer[p] \in [pc : PackPcs, todo : F, seen : F, tops : T, key : Archive, out : Archive, edited : BOOLEAN]
      BY <1>t DEF Caller
    <3>3. l \in PackPcs
      BY <2>p DEF PackPcs
    <3> HIDE DEF F, T
    <3>4. q \in [pc : PackPcs, todo : F, seen : F, tops : T, key : Archive, out : Archive, edited : BOOLEAN]
      BY <3>1, <3>2, <3>3
    <3> QED
      BY <3>4 DEF F, T, Caller
  <2> HIDE DEF q
  <2>4. ~q.edited => HoldsProgram(q.seen)
    <3> SUFFICES ASSUME ~q.edited PROVE HoldsProgram(q.seen)
      OBVIOUS
    <3>1. CASE packer[p].pc = "collect"
      <4>1. Entry \in packer[p].seen
        BY <3>1, <2>0, <1>t DEF CallerOk
      <4>2. Closed(packer[p].seen)
        BY <3>1, <2>0, <2>2, <1>t DEF CallerOk, Closed
      <4>3. packer[p].seen \in SUBSET q.seen
        BY <2>2
      <4> QED
        BY <4>1, <4>2, <4>3 DEF HoldsProgram
    <3>2. CASE packer[p].pc = "expand"
      <4>1. HoldsProgram(packer[p].seen)
        BY <3>2, <2>2, <1>t DEF CallerOk
      <4>2. PICK T \in SUBSET packer[p].seen : Entry \in T /\ Closed(T)
        BY <4>1 DEF HoldsProgram
      <4>3. T \in SUBSET q.seen
        BY <2>2
      <4> QED
        BY <4>2, <4>3 DEF HoldsProgram
    <3> QED
      BY <3>1, <3>2, <2>0
  <2>5. q.out = None
    BY <2>2, <2>0, <1>t DEF CallerOk
  <2>6. CallerOk(q)
    BY <2>2, <2>4, <2>5, <2>p DEF CallerOk
  <2> QED
    BY <2>1, <2>3, <2>6, CallerSteps
<1> QED
  BY <1>1, <1>2, <1>3

\* The key of the archive and its search in the cache.
LEMMA KeyHolds ==
  ASSUME PackInv, NEW p \in Packers, TakeKey(p) \/ Miss(p)
  PROVE  PackInv'
<1>t. packer \in [Packers -> Caller] /\ packer[p] \in Caller /\ CallerOk(packer[p]) /\ src \in [Files -> Text]
  BY DEF PackInv, PackTypes
<1>s. packer[p].seen \in SUBSET Files /\ \A f \in Files : src[f].ver \in Nat /\ src[f].mtime = src[f].ver
  BY <1>t DEF Caller, Text, PackInv
<1> DEFINE C == SUBSET Files
<1>c. Caller = [pc : PackPcs, todo : C, seen : C, tops : SUBSET Tops, key : Archive, out : Archive, edited : BOOLEAN]
  BY DEF Caller
<1>n. DOMAIN None = {}
  BY DEF None
<1> HIDE DEF C
<1>1. CASE TakeKey(p)
  <2> DEFINE key == [f \in Entries(p) |-> Fingerprint(f)]
             q == [packer[p] EXCEPT !.pc = "lookup", !.key = key]
  <2>0. packer[p].pc = "key"
    BY <1>1 DEF TakeKey
  <2>1. packer' = [packer EXCEPT ![p] = q] /\ UNCHANGED <<src, edits, cache>>
    BY <1>1, <1>t DEF TakeKey
  <2>2. key \in [packer[p].seen -> Nat] /\ \A f \in packer[p].seen : key[f] = src[f].ver
    BY <1>s DEF Entries, Fingerprint
  <2> HIDE DEF key
  <2>3. key \in Archive /\ DOMAIN key = packer[p].seen
    BY <2>2, <1>s, ArchiveOf
  <2>4. q \in Caller
    BY <2>3, <1>t, <1>c DEF PackPcs
  <2>5. /\ q.pc = "lookup" /\ q.key = key /\ q.seen = packer[p].seen /\ q.out = packer[p].out
        /\ q.edited = packer[p].edited
    BY <1>t, <1>c
  <2> HIDE DEF q
  <2>6. q.out = None
    BY <2>0, <2>5, <1>t DEF CallerOk
  <2>7. CallerOk(q)
    BY <2>0, <2>2, <2>3, <2>5, <2>6, <1>n, <1>s, <1>t DEF CallerOk, Between
  <2> QED
    BY <2>1, <2>4, <2>7, CallerSteps
<1>2. CASE Miss(p)
  <2> DEFINE q == [packer[p] EXCEPT !.pc = "write"]
  <2>0. packer[p].pc = "lookup"
    BY <1>2 DEF Miss
  <2>1. packer' = [packer EXCEPT ![p] = q] /\ UNCHANGED <<src, edits, cache>>
    BY <1>2, <1>t DEF Miss
  <2>4. q \in Caller
    BY <1>t, <1>c DEF PackPcs
  <2>5. /\ q.pc = "write" /\ q.key = packer[p].key /\ q.seen = packer[p].seen /\ q.out = packer[p].out
        /\ q.edited = packer[p].edited
    BY <1>t, <1>c
  <2> HIDE DEF q
  <2>7. CallerOk(q)
    BY <2>0, <2>5, <1>t DEF CallerOk
  <2> QED
    BY <2>1, <2>4, <2>7, CallerSteps
<1> QED
  BY <1>1, <1>2

\* A call takes an archive that is cached under its key.
LEMMA CopyHolds ==
  ASSUME PackInv, NEW p \in Packers, packer[p].pc \in {"lookup", "write"},
         NEW i \in Cached(packer[p].key), Copy(p, i), UNCHANGED <<src, edits, cache>>
  PROVE  PackInv'
<1>t. packer \in [Packers -> Caller] /\ packer[p] \in Caller /\ CallerOk(packer[p]) /\ src \in [Files -> Text]
  BY DEF PackInv, PackTypes
<1> DEFINE e == cache[i]
           q == [packer[p] EXCEPT !.pc = "done", !.out = e.out]
<1>e. e \in [key : Archive, out : Archive] /\ e.key = packer[p].key
      /\ DOMAIN e.key = DOMAIN e.out /\ Between(e.key, e.out)
  <2>1. i \in DOMAIN cache /\ cache[i].key = packer[p].key
    BY DEF Cached
  <2> DEFINE E == [key : Archive, out : Archive]
  <2>2. cache \in Seq(E)
    BY DEF PackInv, PackTypes
  <2>3. DOMAIN cache[i].key = DOMAIN cache[i].out /\ Between(cache[i].key, cache[i].out)
    BY <2>1 DEF PackInv
  <2> HIDE DEF E
  <2>4. cache[i] \in E
    BY <2>1, <2>2
  <2> QED
    BY <2>1, <2>3, <2>4 DEF E
<1>1. packer' = [packer EXCEPT ![p] = q]
  BY <1>t DEF Copy
<1> HIDE DEF e
<1>2. q \in Caller
  <2> DEFINE C == SUBSET Files
  <2>1. Caller = [pc : PackPcs, todo : C, seen : C, tops : SUBSET Tops, key : Archive, out : Archive, edited : BOOLEAN]
    BY DEF Caller
  <2> HIDE DEF C
  <2> QED
    BY <2>1, <1>e, <1>t DEF PackPcs
<1>3. q.pc = "done" /\ q.out = e.out /\ q.edited = packer[p].edited
  BY <1>t DEF Caller
<1> HIDE DEF q
<1>4. CallerOk(q)
  <2> SUFFICES ASSUME ~packer[p].edited
               PROVE  HoldsProgram(DOMAIN e.out) /\ \A f \in DOMAIN e.out : e.out[f] = src[f].ver
    BY <1>3 DEF CallerOk
  <2>1. DOMAIN e.out = packer[p].seen
    BY <1>e, <1>t DEF CallerOk
  <2>2. HoldsProgram(DOMAIN e.out)
    BY <2>1, <1>t DEF CallerOk
  <2>3. ASSUME NEW f \in DOMAIN e.out PROVE e.out[f] = src[f].ver
    <3>1. e.key[f] = src[f].ver /\ e.key[f] <= e.out[f] /\ e.out[f] <= src[f].ver
      BY <2>1, <1>e, <1>t DEF CallerOk, Between
    <3>2. e.out \in [DOMAIN e.out -> Nat] /\ DOMAIN e.out \in SUBSET Files
      BY <1>e, ArchiveHas
    <3>3. e.out[f] \in Nat /\ src[f].ver \in Nat
      BY <3>2, <1>t DEF Text
    <3> QED
      BY <3>1, <3>3
  <2> QED
    BY <2>2, <2>3
<1> QED
  BY <1>1, <1>2, <1>4, CallerSteps

\* The writing of the archive, file after file.
LEMMA WriteHolds ==
  ASSUME PackInv, NEW p \in Packers, NEW f \in Files, WriteFile(p, f)
  PROVE  PackInv'
<1>t. packer \in [Packers -> Caller] /\ packer[p] \in Caller /\ CallerOk(packer[p]) /\ src \in [Files -> Text]
  BY DEF PackInv, PackTypes
<1> DEFINE old == packer[p].out
           out == [g \in DOMAIN old \cup {f} |-> IF g = f THEN src[f].ver ELSE old[g]]
           q == [packer[p] EXCEPT !.out = out]
<1>0. packer[p].pc = "write" /\ f \in packer[p].seen
  BY DEF WriteFile, Entries
<1>1. packer' = [packer EXCEPT ![p] = q] /\ UNCHANGED <<src, edits, cache>>
  BY <1>t DEF WriteFile
<1>o. DOMAIN old \in SUBSET Files /\ old \in [DOMAIN old -> Nat]
  <2>1. old \in Archive
    BY <1>t DEF Caller
  <2> QED
    BY <2>1, ArchiveHas
<1> HIDE DEF old
<1>2. /\ out \in [DOMAIN old \cup {f} -> Nat] /\ out[f] = src[f].ver
      /\ \A g \in DOMAIN old : g # f => out[g] = old[g]
  BY <1>o, <1>t DEF Text
<1> HIDE DEF out
<1>3. out \in Archive /\ DOMAIN out = DOMAIN old \cup {f}
  <2>1. DOMAIN old \cup {f} \in SUBSET Files
    BY <1>o
  <2> QED
    BY <2>1, <1>2, ArchiveOf
<1>4. q \in Caller
  <2> DEFINE C == SUBSET Files
  <2>1. Caller = [pc : PackPcs, todo : C, seen : C, tops : SUBSET Tops, key : Archive, out : Archive, edited : BOOLEAN]
    BY DEF Caller
  <2> HIDE DEF C
  <2> QED
    BY <2>1, <1>3, <1>t
<1>5. /\ q.pc = "write" /\ q.key = packer[p].key /\ q.seen = packer[p].seen /\ q.out = out
      /\ q.edited = packer[p].edited
  BY <1>0, <1>t DEF Caller
<1> HIDE DEF q
<1>6. Between(packer[p].key, out)
  <2>1. DOMAIN packer[p].key = packer[p].seen /\ Between(packer[p].key, old)
    BY <1>0, <1>t DEF CallerOk, old
  <2>2. packer[p].key[f] <= src[f].ver /\ src[f].ver <= src[f].ver
    BY <1>0, <1>t DEF CallerOk, Text
  <2> QED
    BY <2>1, <2>2, <1>0, <1>2, <1>3 DEF Between
<1>7. CallerOk(q)
  BY <1>0, <1>5, <1>6, <1>t DEF CallerOk
<1> QED
  BY <1>1, <1>4, <1>7, CallerSteps

\* A new archive is stored, and the oldest one may go.
LEMMA StoreHolds ==
  ASSUME PackInv, NEW p \in Packers, Store(p)
  PROVE  PackInv'
<1> DEFINE E == [key : Archive, out : Archive]
           Right(e) == DOMAIN e.key = DOMAIN e.out /\ Between(e.key, e.out)
<1>t. /\ packer \in [Packers -> Caller] /\ packer[p] \in Caller /\ CallerOk(packer[p]) /\ src \in [Files -> Text]
      /\ cache \in Seq(E)
  BY DEF PackInv, PackTypes
<1>0. packer[p].pc = "write" /\ packer[p].seen = DOMAIN packer[p].out /\ UNCHANGED <<src, edits>>
  BY DEF Store, Entries
<1>1. CASE UNCHANGED cache /\ \E i \in Cached(packer[p].key) : Copy(p, i)
  BY <1>0, <1>1, CopyHolds
<1>2. CASE /\ cache' = Pruned(Append(cache, [key |-> packer[p].key, out |-> packer[p].out]))
           /\ packer' = [packer EXCEPT ![p].pc = "done"]
  <2> DEFINE new == [key |-> packer[p].key, out |-> packer[p].out]
             more == Append(cache, new)
             q == [packer[p] EXCEPT !.pc = "done"]
  <2>1. packer' = [packer EXCEPT ![p] = q] /\ cache' = Pruned(more)
    BY <1>2, <1>t
  <2>2. new \in E /\ DOMAIN packer[p].key = packer[p].seen /\ Between(packer[p].key, packer[p].out)
    BY <1>0, <1>t DEF CallerOk, Caller
  <2>3. Right(new)
    BY <1>0, <2>2
  <2>r. \A i \in DOMAIN cache : Right(cache[i])
    BY DEF PackInv
  <2> HIDE DEF new, E, Right
  <2>4. more \in Seq(E) /\ Len(more) = Len(cache) + 1 /\ more # <<>>
        /\ \A i \in DOMAIN more : more[i] = new \/ (i \in DOMAIN cache /\ more[i] = cache[i])
    <3>1. new \in E /\ cache \in Seq(E)
      BY <2>2, <1>t
    <3>2. more \in Seq(E) /\ Len(more) = Len(cache) + 1 /\ Len(cache) \in Nat
      BY <3>1
    <3>3. \A i \in 1..Len(cache) : more[i] = cache[i]
      BY <3>1
    <3>4. more[Len(cache) + 1] = new
      BY <3>1
    <3>5. DOMAIN more = 1..Len(cache) + 1 /\ DOMAIN cache = 1..Len(cache)
      BY <3>1, <3>2
    <3> HIDE DEF more
    <3>6. ASSUME NEW i \in DOMAIN more PROVE more[i] = new \/ (i \in DOMAIN cache /\ more[i] = cache[i])
      <4>1. i = Len(cache) + 1 \/ i \in 1..Len(cache)
        BY <3>2, <3>5
      <4> QED
        BY <4>1, <3>3, <3>4, <3>5
    <3>7. more # <<>>
      BY <3>2
    <3> QED
      BY <3>2, <3>6, <3>7
  <2> HIDE DEF more
  <2>5. cache' \in Seq(E) /\ \A i \in DOMAIN cache' : \E j \in DOMAIN more : cache'[i] = more[j]
    <3>1. CASE cache' = more
      BY <3>1, <2>4
    <3>2. CASE cache' = Tail(more)
      <4>1. Tail(more) \in Seq(E) /\ \A i \in DOMAIN Tail(more) : i + 1 \in DOMAIN more /\ Tail(more)[i] = more[i + 1]
        BY <2>4
      <4> QED
        BY <3>2, <4>1
    <3> QED
      BY <2>1, <3>1, <3>2 DEF Pruned
  <2>6. \A i \in DOMAIN cache' : Right(cache'[i])
    BY <2>3, <2>r, <2>4, <2>5
  <2>7. q \in Caller /\ q.pc = "done" /\ q.out = packer[p].out /\ q.edited = packer[p].edited
    <3> DEFINE C == SUBSET Files
    <3>1. Caller = [pc : PackPcs, todo : C, seen : C, tops : SUBSET Tops, key : Archive, out : Archive, edited : BOOLEAN]
      BY DEF Caller
    <3> HIDE DEF C
    <3> QED
      BY <3>1, <1>t DEF PackPcs
  <2> HIDE DEF q
  <2>8. CallerOk(q)
    <3> SUFFICES ASSUME ~packer[p].edited
                 PROVE  HoldsProgram(DOMAIN q.out) /\ \A f \in DOMAIN q.out : q.out[f] = src[f].ver
      BY <2>7 DEF CallerOk
    <3>1. HoldsProgram(DOMAIN q.out)
      BY <1>0, <1>t, <2>7 DEF CallerOk
    <3>2. ASSUME NEW f \in DOMAIN q.out PROVE q.out[f] = src[f].ver
      <4>1. packer[p].key[f] = src[f].ver /\ packer[p].key[f] <= q.out[f] /\ q.out[f] <= src[f].ver
        BY <1>0, <1>t, <2>2, <2>7 DEF CallerOk, Between
      <4>2. q.out \in [DOMAIN q.out -> Nat] /\ DOMAIN q.out \in SUBSET Files
        <5>1. q.out \in Archive
          BY <2>7 DEF Caller
        <5> QED
          BY <5>1, ArchiveHas
      <4>3. q.out[f] \in Nat /\ src[f].ver \in Nat
        BY <4>2, <1>t DEF Text
      <4> QED
        BY <4>1, <4>3
    <3> QED
      BY <3>1, <3>2
  \* The files are the same, so what held of an archive or of a call still holds.
  <2>9. PackTypes'
    BY <2>1, <2>5, <2>7, <1>0 DEF PackInv, PackTypes, E
  <2>10. ASSUME NEW d \in Packers PROVE CallerOk(packer[d])'
    <3>1. CallerOk(packer'[d])
      BY <2>1, <2>8 DEF PackInv, PackTypes
    <3> QED
      BY <3>1, <1>0 DEF CallerOk, Between, HoldsProgram, Closed
  <2>11. (\A i \in DOMAIN cache : DOMAIN cache[i].key = DOMAIN cache[i].out /\ Between(cache[i].key, cache[i].out))'
    BY <2>6, <1>0 DEF Right, Between
  <2>12. (\A f \in Files : src[f].mtime = src[f].ver /\ src[f].ver <= edits)'
    BY <1>0 DEF PackInv
  <2> QED
    BY <2>9, <2>10, <2>11, <2>12 DEF PackInv
<1> QED
  BY <1>1, <1>2 DEF Store

\* An edit makes a file newer, and what was packed until then old.
LEMMA EditHolds ==
  ASSUME PackInv, NEW f \in Files, NEW imports \in ImportSets, Edit(f, imports)
  PROVE  PackInv'
<1> USE PackagingAssumption
<1>t. /\ packer \in [Packers -> Caller] /\ src \in [Files -> Text] /\ edits \in Nat
      /\ \A p \in Packers : packer[p] \in Caller /\ CallerOk(packer[p])
  BY DEF PackInv, PackTypes
<1> DEFINE t == [ver |-> edits + 1, mtime |-> edits + 1, imports |-> imports \ {f}]
<1>1. src' = [src EXCEPT ![f] = t] /\ edits' = edits + 1 /\ UNCHANGED cache
  BY DEF Edit
<1>2. t \in Text /\ t.ver = edits + 1 /\ t.mtime = edits + 1
  BY <1>t DEF Text
<1> HIDE DEF t
<1>3. src' \in [Files -> Text] /\ \A g \in Files : src'[g].mtime = src'[g].ver /\ src'[g].ver <= edits'
  BY <1>1, <1>2, <1>t DEF PackInv, Text
<1>4. \A g \in Files : src[g].ver <= src'[g].ver /\ src[g].ver \in Nat /\ src'[g].ver \in Nat
  BY <1>1, <1>2, <1>3, <1>t DEF PackInv, Text
<1>5. ASSUME NEW key \in Archive, NEW out \in Archive, Between(key, out) PROVE Between(key, out)'
  <2>1. DOMAIN out \in SUBSET Files /\ out \in [DOMAIN out -> Nat]
    BY ArchiveHas
  <2>2. ASSUME NEW g \in DOMAIN out PROVE g \in DOMAIN key /\ key[g] <= out[g] /\ out[g] <= src'[g].ver
    <3>1. out[g] \in Nat /\ out[g] <= src[g].ver /\ g \in Files
      BY <2>1, <1>5 DEF Between
    <3> QED
      BY <3>1, <1>4, <1>5 DEF Between
  <2> QED
    BY <2>2 DEF Between
<1>6. ASSUME NEW p \in Packers PROVE packer'[p] \in Caller /\ CallerOk(packer[p])'
  <2> DEFINE l == IF packer[p].pc = "done" THEN "old" ELSE packer[p].pc
             b == packer[p].edited \/ p \in Packing
             r == [packer[p] EXCEPT !.edited = b, !.pc = l]
  <2>0. packer'[p] = r
    BY <1>t DEF Edit
  <2>2. l \in PackPcs /\ b \in BOOLEAN
    BY <1>t DEF PackPcs, Caller
  <2>3. l \notin {"new", "old"} => b /\ l = packer[p].pc
    BY DEF Packing
  <2>4. l # "done"
    OBVIOUS
  <2> HIDE DEF l, b
  <2>r. r \in Caller /\ r.pc = l /\ r.edited = b /\ r.seen = packer[p].seen /\ r.todo = packer[p].todo
        /\ r.key = packer[p].key /\ r.out = packer[p].out
    <3> DEFINE C == SUBSET Files
    <3>1. Caller = [pc : PackPcs, todo : C, seen : C, tops : SUBSET Tops, key : Archive, out : Archive, edited : BOOLEAN]
      BY DEF Caller
    <3> HIDE DEF C
    <3> QED
      BY <3>1, <2>2, <1>t
  <2> HIDE DEF r
  <2>1. PICK q \in Caller : q = r
    BY <2>r
  <2>5. /\ q.pc = l /\ q.edited = b /\ q.seen = packer[p].seen /\ q.todo = packer[p].todo
        /\ q.key = packer[p].key /\ q.out = packer[p].out /\ packer'[p] = q
    BY <2>0, <2>r, <2>1
  <2>6. q.pc \in {"lookup", "write"} =>
          DOMAIN q.key = q.seen /\ Between(q.key, q.out)' /\ \A g \in q.seen : q.key[g] <= src'[g].ver
    <3> SUFFICES ASSUME q.pc \in {"lookup", "write"}
                 PROVE  DOMAIN q.key = q.seen /\ Between(q.key, q.out)' /\ \A g \in q.seen : q.key[g] <= src'[g].ver
      OBVIOUS
    <3>1. packer[p].pc \in {"lookup", "write"}
      BY <2>3, <2>5
    <3>2. DOMAIN q.key = q.seen /\ Between(q.key, q.out) /\ \A g \in q.seen : q.key[g] <= src[g].ver
      BY <3>1, <2>5, <1>t DEF CallerOk
    <3>3. q.key \in Archive /\ q.out \in Archive
      BY <2>5 DEF Caller
    <3>4. Between(q.key, q.out)'
      BY <3>2, <3>3, <1>5
    <3>5. q.seen \subseteq Files /\ q.key \in [q.seen -> Nat]
      BY <3>2, <3>3, ArchiveHas
    <3>6. ASSUME NEW g \in q.seen PROVE q.key[g] <= src'[g].ver
      <4>1. q.key[g] \in Nat /\ q.key[g] <= src[g].ver /\ g \in Files
        BY <3>2, <3>5
      <4> QED
        BY <4>1, <1>4
    <3> QED
      BY <3>2, <3>4, <3>6
  <2>7. q.pc \in {"collect", "expand", "key", "lookup"} => q.out = None
    BY <2>3, <2>5, <1>t DEF CallerOk
  <2>8. q.pc = "collect" => Entry \in q.seen \cup q.todo
    BY <2>3, <2>5, <1>t DEF CallerOk
  <2>9. ~q.edited => q.pc \in {"new", "old"}
    BY <2>3, <2>5
  <2>10. q.pc # "done"
    BY <2>4, <2>5
  <2>11. CallerOk(packer[p])'
    BY <2>5, <2>6, <2>7, <2>8, <2>9, <2>10 DEF CallerOk
  <2> QED
    BY <2>5, <2>11
<1>7. PackTypes'
  <2>1. packer' = [p \in Packers |-> packer'[p]]
    BY DEF Edit
  <2>2. packer' \in [Packers -> Caller]
    BY <2>1, <1>6
  <2> QED
    BY <2>2, <1>1, <1>3, <1>t DEF PackInv, PackTypes
<1>8. ASSUME NEW i \in DOMAIN cache
      PROVE  DOMAIN cache[i].key = DOMAIN cache[i].out /\ Between(cache[i].key, cache[i].out)'
  <2> DEFINE E == [key : Archive, out : Archive]
  <2>1. cache \in Seq(E)
    BY DEF PackInv, PackTypes
  <2> HIDE DEF E
  <2>2. cache[i] \in E
    BY <2>1
  <2>3. cache[i].key \in Archive /\ cache[i].out \in Archive
    BY <2>2 DEF E
  <2>4. DOMAIN cache[i].key = DOMAIN cache[i].out /\ Between(cache[i].key, cache[i].out)
    BY DEF PackInv
  <2>5. PICK key \in Archive : key = cache[i].key
    BY <2>3
  <2>6. PICK out \in Archive : out = cache[i].out
    BY <2>3
  <2>7. Between(key, out)'
    BY <2>4, <2>5, <2>6, <1>5
  <2>8. cache'[i] = cache[i]
    BY <1>1
  <2> QED
    BY <2>4, <2>5, <2>6, <2>7, <2>8, <1>1
<1>9. (\A i \in DOMAIN cache : DOMAIN cache[i].key = DOMAIN cache[i].out /\ Between(cache[i].key, cache[i].out))'
  BY <1>8, <1>1
<1>10. (\A p \in Packers : CallerOk(packer[p]))'
  BY <1>6
<1> QED
  BY <1>3, <1>7, <1>9, <1>10 DEF PackInv

\* The package a node gets is the program: it can be imported without any other
\* local module, and has the text the files have, unless a file changed while it
\* was made (_collect_loaded_module_infos, _store_cached_targz).
THEOREM PackagesRight == PackSpec => []PackageRight
<1>1. PackInit => PackInv
  <2> SUFFICES ASSUME PackInit PROVE PackInv
    OBVIOUS
  <2> USE PackagingAssumption DEF PackInit
  <2>1. None \in Archive
    <3>1. None \in [{} -> Nat] /\ {} \in SUBSET Files
      BY DEF None
    <3> QED
      BY <3>1, ArchiveOf
  <2>2. NewPacker \in Caller /\ NewPacker.pc = "new"
    BY <2>1 DEF NewPacker, Caller, PackPcs
  <2>3. PackTypes
    BY <2>2 DEF PackTypes, Text
  <2>4. \A p \in Packers : CallerOk(packer[p])
    BY <2>2 DEF CallerOk
  <2> QED
    BY <2>3, <2>4 DEF PackInv
<1>2. PackInv /\ [PackNext]_packVars => PackInv'
  <2> SUFFICES ASSUME PackInv, [PackNext]_packVars PROVE PackInv'
    OBVIOUS
  <2>1. CASE UNCHANGED packVars
    BY <2>1 DEF packVars, PackInv, PackTypes, CallerOk, Between, HoldsProgram, Closed
  <2>2. ASSUME NEW p \in Packers, PackStep(p) PROVE PackInv'
    <3>1. CASE Pack(p) \/ (\E f \in Files : Visit(p, f)) \/ Expand(p)
      BY <3>1, CollectHolds
    <3>2. CASE TakeKey(p) \/ Miss(p)
      BY <3>2, KeyHolds
    <3>3. CASE Hit(p)
      BY <3>3, CopyHolds DEF Hit
    <3>4. CASE \E f \in Files : WriteFile(p, f)
      BY <3>4, WriteHolds
    <3>5. CASE Store(p)
      BY <3>5, StoreHolds
    <3> QED
      BY <2>2, <3>1, <3>2, <3>3, <3>4, <3>5 DEF PackStep
  <2>3. ASSUME NEW f \in Files, NEW imports \in ImportSets, Edit(f, imports) PROVE PackInv'
    BY <2>3, EditHolds
  <2> QED
    BY <2>1, <2>2, <2>3 DEF PackNext
<1>3. PackInv => PackageRight
  <2> SUFFICES ASSUME PackInv, NEW p \in Packers, packer[p].pc = "done", ~packer[p].edited
               PROVE  /\ Entry \in DOMAIN packer[p].out
                      /\ \E S \in SUBSET DOMAIN packer[p].out : Entry \in S /\ Closed(S)
                      /\ \A f \in DOMAIN packer[p].out : packer[p].out[f] = src[f].ver
    BY DEF PackageRight, SelfContained, PackageCurrent
  <2>1. CallerOk(packer[p])
    BY DEF PackInv
  <2>2. HoldsProgram(DOMAIN packer[p].out) /\ \A f \in DOMAIN packer[p].out : packer[p].out[f] = src[f].ver
    BY <2>1 DEF CallerOk
  <2> QED
    BY <2>2 DEF HoldsProgram
<1> QED
  BY <1>1, <1>2, <1>3, PTL DEF PackSpec

-----------------------------------------------------------------------------
(* The objects of a node: where their bytes are. *)

Place == {Nowhere, OwnFile} \cup (Segs \X Nat)
Meta == [on : BOOLEAN, place : Place, pins : SUBSET Refs]
StoreTypes ==
  /\ objOf \in [Refs -> Objects] /\ meta \in [Objects -> Meta]
  /\ seg \in [Segs -> [on : BOOLEAN, used : BOOLEAN, bytes : Seq(Objects)]]
  /\ mem \in [Objects -> Place] /\ cur \in [{"node"} \cup Workers -> Segs \cup {0}]
  /\ io \in [Threads -> [pc : {"rest", "bytes", "meta", "mem", "touch", "open"}, o : Objects \cup {0},
                         place : Place, old : Meta]]
  /\ \A t \in Threads : io[t].pc # "rest" => io[t].o \in Objects
  /\ held \subseteq Refs

\* A place anybody remembers of an object is that of its bytes, as long as the
\* segment is there; a segment that is gone never comes back under its name.
PlaceOk(o, p) ==
  p \notin {Nowhere, OwnFile} =>
    /\ seg[p[1]].used
    /\ seg[p[1]].on => p[2] \in DOMAIN seg[p[1]].bytes /\ seg[p[1]].bytes[p[2]] = o
SegsOk == \A s \in Segs : (seg[s].on => seg[s].used) /\ (~seg[s].on => seg[s].bytes = <<>>)
PlacesOk ==
  /\ \A o \in Objects : PlaceOk(o, mem[o]) /\ PlaceOk(o, meta[o].place)
  /\ \A t \in Threads : PlaceOk(io[t].o, io[t].place) /\ PlaceOk(io[t].o, io[t].old.place)

\* Metadata points at bytes that are there, but for what was written too late, and
\* names the pins that are held, but for those that were written over.
PinsOk ==
  /\ \A o \in Objects : meta[o].on /\ o \notin torn => There(o, meta[o].place)
  /\ \A o \in Objects : ~meta[o].on => meta[o].place = Nowhere
  /\ \A r \in held \ excused : meta[objOf[r]].on /\ r \in meta[objOf[r]].pins

StoreInv == StoreTypes /\ SegsOk /\ PlacesOk /\ PinsOk

\* Segments grow at their end and go, until gc compacts them.
Grows ==
  \A s \in Segs : /\ seg[s].used => seg'[s].used
                  /\ seg[s].used /\ seg'[s].on => /\ seg[s].on
                                                  /\ \A i \in DOMAIN seg[s].bytes : i \in DOMAIN seg'[s].bytes
                                                                                /\ seg'[s].bytes[i] = seg[s].bytes[i]

\* So a place stays right.
LEMMA PlaceStays ==
  ASSUME Grows, NEW o, NEW p \in Place, PlaceOk(o, p)
  PROVE  PlaceOk(o, p)'
<1>1. CASE p \in {Nowhere, OwnFile}
  BY <1>1 DEF PlaceOk
<1>2. CASE p \in Segs \X Nat /\ p \notin {Nowhere, OwnFile}
  <2>1. PICK s \in Segs, i \in Nat : p = <<s, i>> /\ p[1] = s /\ p[2] = i
    BY <1>2
  <2>2. seg[s].used /\ (seg[s].on => i \in DOMAIN seg[s].bytes /\ seg[s].bytes[i] = o)
    BY <1>2, <2>1 DEF PlaceOk
  <2>3. seg'[s].used /\ (seg'[s].on => i \in DOMAIN seg'[s].bytes /\ seg'[s].bytes[i] = o)
    BY <2>2 DEF Grows
  <2> QED
    BY <2>1, <2>3 DEF PlaceOk
<1> QED
  BY <1>1, <1>2 DEF Place

\* A segment is none of the places without one.
LEMMA SegPlaces ==
  ASSUME NEW s \in Segs, NEW i
  PROVE  <<s, i>> \notin {Nowhere, OwnFile} /\ s # 0
BY ObjectStoreAssumption DEF Segs, Nowhere, OwnFile

\* The values of the variables.
LEMMA StoreTypesStay ==
  ASSUME StoreInv, UNCHANGED objOf,
         \/ \E t \in Threads, o \in Objects : Put(t, o) \/ Commit(t, o) \/ Fetch(t, o) \/ Lookup4Read(t, o)
         \/ \E t \in Threads : ReplaceFile(t) \/ StoreMeta(t) \/ Remember(t) \/ Touch(t) \/ SkipTouch(t) \/ Open(t)
  PROVE  StoreTypes' /\ UNCHANGED seg
<1>s. StoreTypes
  BY DEF StoreInv
<1>p. Nowhere \in Place /\ OwnFile \in Place /\ NoMeta \in Meta /\ AtRest \in
        [pc : {"rest", "bytes", "meta", "mem", "touch", "open"}, o : Objects \cup {0}, place : Place, old : Meta]
      /\ AtRest.pc = "rest"
  BY DEF Place, Meta, NoMeta, AtRest
<1>d. \A o \in Objects : OnDisk(o) \in Place /\ Artifact(o) \in Place
  BY <1>s, <1>p DEF OnDisk, Artifact, StoreTypes, Meta
<1>1. ASSUME NEW t \in Threads, NEW o \in Objects, Put(t, o) PROVE StoreTypes' /\ UNCHANGED seg
  <2>1. mem' = mem \/ \E p \in Place : mem' = [mem EXCEPT ![o] = p]
    BY <1>1, <1>d DEF Put
  <2>2. mem' \in [Objects -> Place]
    BY <2>1, <1>s DEF StoreTypes
  <2> DEFINE x == [AtRest EXCEPT !.pc = "bytes", !.o = o]
  <2>3. x \in [pc : {"rest", "bytes", "meta", "mem", "touch", "open"}, o : Objects \cup {0}, place : Place, old : Meta]
        /\ x.o = o
    BY <1>p DEF AtRest
  <2>4. io' = io \/ io' = [io EXCEPT ![t] = x]
    BY <1>1 DEF Put
  <2> HIDE DEF x
  <2>5. UNCHANGED <<meta, seg, cur, held>>
    BY <1>1 DEF Put
  <2>6. CASE io' = io
    BY <2>2, <2>5, <2>6, <1>s DEF StoreTypes
  <2>7. CASE io' = [io EXCEPT ![t] = x]
    BY <2>2, <2>3, <2>5, <2>7, <1>s DEF StoreTypes
  <2> QED
    BY <2>4, <2>5, <2>6, <2>7
<1>2. ASSUME NEW t \in Threads, NEW o \in Objects, Commit(t, o) PROVE StoreTypes' /\ UNCHANGED seg
  BY <1>2, <1>s, <1>p DEF Commit, StoreTypes, AtRest
<1>3. ASSUME NEW t \in Threads, NEW o \in Objects, Fetch(t, o) PROVE StoreTypes' /\ UNCHANGED seg
  BY <1>3, <1>s, <1>p DEF Fetch, StoreTypes, AtRest
<1>4. ASSUME NEW t \in Threads, NEW o \in Objects, Lookup4Read(t, o) PROVE StoreTypes' /\ UNCHANGED seg
  BY <1>4, <1>s, <1>p, <1>d DEF Lookup4Read, StoreTypes
<1>5. ASSUME NEW t \in Threads, ReplaceFile(t) PROVE StoreTypes' /\ UNCHANGED seg
  BY <1>5, <1>s, <1>p DEF ReplaceFile, StoreTypes
<1>6. ASSUME NEW t \in Threads, StoreMeta(t) PROVE StoreTypes' /\ UNCHANGED seg
  <2>1. [on |-> TRUE, place |-> io[t].place, pins |-> {}] \in Meta /\ io[t].o \in Objects
    BY <1>6, <1>s DEF StoreMeta, StoreTypes, Meta
  <2> QED
    BY <1>6, <2>1, <1>s, <1>p DEF StoreMeta, Writes, StoreTypes
<1>7. ASSUME NEW t \in Threads, Remember(t) PROVE StoreTypes' /\ UNCHANGED seg
  BY <1>7, <1>s, <1>p DEF Remember, StoreTypes
<1>8. ASSUME NEW t \in Threads, Touch(t) PROVE StoreTypes' /\ UNCHANGED seg
  <2>1. [on |-> TRUE, place |-> OwnFile, pins |-> {}] \in Meta /\ io[t].old \in Meta /\ io[t].o \in Objects
    BY <1>8, <1>s, <1>p DEF Touch, StoreTypes, Meta
  <2>2. meta' = meta \/ \E m \in Meta : meta' = [meta EXCEPT ![io[t].o] = m]
    BY <1>8, <2>1 DEF Touch, Writes
  <2>3. meta' \in [Objects -> Meta]
    BY <2>1, <2>2, <1>s DEF StoreTypes
  <2> QED
    BY <1>8, <2>1, <2>3, <1>s, <1>p DEF Touch, StoreTypes
<1>9. ASSUME NEW t \in Threads, SkipTouch(t) \/ Open(t) PROVE StoreTypes' /\ UNCHANGED seg
  <2>1. CASE Open(t)
    BY <2>1, <1>s, <1>p DEF Open, StoreTypes
  <2>2. CASE SkipTouch(t)
    <3> DEFINE x == [io[t] EXCEPT !.pc = "open", !.old = NoMeta]
    <3>1. x \in [pc : {"rest", "bytes", "meta", "mem", "touch", "open"}, o : Objects \cup {0}, place : Place, old : Meta]
          /\ x.o = io[t].o
      BY <1>s, <1>p DEF StoreTypes
    <3>2. io' = [io EXCEPT ![t] = x] /\ io[t].pc # "rest"
      BY <2>2 DEF SkipTouch
    <3> HIDE DEF x
    <3>3. io[t].o \in Objects /\ io \in [Threads -> [pc : {"rest", "bytes", "meta", "mem", "touch", "open"},
                                     o : Objects \cup {0}, place : Place, old : Meta]]
      BY <3>2, <1>s DEF StoreTypes
    <3>4. io' \in [Threads -> [pc : {"rest", "bytes", "meta", "mem", "touch", "open"}, o : Objects \cup {0},
                              place : Place, old : Meta]]
      BY <3>1, <3>2, <3>3
    <3>5. ASSUME NEW u \in Threads, io'[u].pc # "rest" PROVE io'[u].o \in Objects
      BY <3>1, <3>2, <3>3, <3>5, <1>s DEF StoreTypes
    <3>6. UNCHANGED <<objOf, meta, own, seg, mem, cur, held>>
      BY <2>2 DEF SkipTouch
    <3> QED
      BY <3>4, <3>5, <3>6, <1>s DEF StoreTypes
  <2> QED
    BY <1>9, <2>1, <2>2
<1> QED
  BY <1>1, <1>2, <1>3, <1>4, <1>5, <1>6, <1>7, <1>8, <1>9

\* Places stay right if segments grow and what is remembered anew is right.
NewPlaces ==
  /\ \A o \in Objects : \E p \in Place, q \in Place :
       p = mem'[o] /\ q = meta'[o].place /\ PlaceOk(o, p) /\ PlaceOk(o, q)
  /\ \A t \in Threads : \E o \in Objects \cup {0}, p \in Place, q \in Place :
       o = io'[t].o /\ p = io'[t].place /\ q = io'[t].old.place /\ PlaceOk(o, p) /\ PlaceOk(o, q)
\* Then every place that is remembered is right.
LEMMA PlacesKeep ==
  ASSUME Grows, NewPlaces
  PROVE  PlacesOk'
<1>1. ASSUME NEW o \in Objects PROVE (PlaceOk(o, mem[o]) /\ PlaceOk(o, meta[o].place))'
  <2>1. PICK p \in Place, q \in Place : p = mem'[o] /\ q = meta'[o].place /\ PlaceOk(o, p) /\ PlaceOk(o, q)
    BY DEF NewPlaces
  <2>2. PlaceOk(o, p)' /\ PlaceOk(o, q)'
    BY <2>1, PlaceStays
  <2> QED
    BY <2>1, <2>2 DEF PlaceOk
<1>2. ASSUME NEW t \in Threads PROVE (PlaceOk(io[t].o, io[t].place) /\ PlaceOk(io[t].o, io[t].old.place))'
  <2>1. PICK o \in Objects \cup {0}, p \in Place, q \in Place : o = io'[t].o /\ p = io'[t].place /\ q = io'[t].old.place
                                           /\ PlaceOk(o, p) /\ PlaceOk(o, q)
    BY DEF NewPlaces
  <2>2. PlaceOk(o, p)' /\ PlaceOk(o, q)'
    BY <2>1, PlaceStays
  <2> QED
    BY <2>1, <2>2 DEF PlaceOk
<1> QED
  BY <1>1, <1>2 DEF PlacesOk

\* Whatever a lookup returns is right.
LEMMA LookupOk ==
  ASSUME StoreTypes, PlacesOk, NEW o \in Objects
  PROVE  /\ OnDisk(o) \in Place /\ Artifact(o) \in Place /\ PlaceOk(o, OnDisk(o)) /\ PlaceOk(o, Artifact(o))
         /\ PlaceOk(o, Nowhere) /\ PlaceOk(o, OwnFile) /\ PlaceOk(o, mem[o]) /\ PlaceOk(o, meta[o].place)
         /\ mem[o] \in Place /\ meta[o].place \in Place /\ Nowhere \in Place /\ OwnFile \in Place
<1>1. PlaceOk(o, Nowhere) /\ PlaceOk(o, OwnFile) /\ PlaceOk(o, mem[o]) /\ PlaceOk(o, meta[o].place)
      /\ mem[o] \in Place /\ meta[o].place \in Place /\ Nowhere \in Place /\ OwnFile \in Place
  BY DEF PlaceOk, PlacesOk, StoreTypes, Meta, Place
<1>2. OnDisk(o) \in {meta[o].place, OwnFile, Nowhere} /\ Artifact(o) \in {mem[o], meta[o].place, OwnFile, Nowhere}
  BY DEF OnDisk, Artifact
<1> QED
  BY <1>1, <1>2

\* The steps that touch no segment leave every place right.
LEMMA StorePlacesStay ==
  ASSUME StoreInv, UNCHANGED objOf, StoreTypes', UNCHANGED seg,
         \/ \E t \in Threads, o \in Objects : Put(t, o) \/ Commit(t, o) \/ Fetch(t, o) \/ Lookup4Read(t, o)
         \/ \E t \in Threads : ReplaceFile(t) \/ StoreMeta(t) \/ Remember(t) \/ Touch(t) \/ SkipTouch(t) \/ Open(t)
  PROVE  PlacesOk' /\ SegsOk'
<1>s. StoreTypes /\ PlacesOk /\ SegsOk
  BY DEF StoreInv
<1>g. Grows /\ SegsOk'
  BY <1>s DEF Grows, SegsOk
<1>o. \A o \in Objects : /\ mem[o] \in Place /\ meta[o].place \in Place /\ Nowhere \in Place /\ OwnFile \in Place
                         /\ PlaceOk(o, Nowhere) /\ PlaceOk(o, OwnFile) /\ PlaceOk(o, mem[o]) /\ PlaceOk(o, meta[o].place)
  BY <1>s, LookupOk
<1>t. \A t \in Threads : /\ io[t].place \in Place /\ io[t].old.place \in Place
                         /\ PlaceOk(io[t].o, io[t].place) /\ PlaceOk(io[t].o, io[t].old.place)
  BY <1>s DEF StoreTypes, Meta, PlacesOk
<1>n. /\ Nowhere \in Place /\ \A o : PlaceOk(o, Nowhere) /\ PlaceOk(o, OwnFile)
      /\ AtRest.o = 0 /\ AtRest.place = Nowhere /\ AtRest.old.place = Nowhere /\ NoMeta.place = Nowhere
  BY DEF Place, PlaceOk, AtRest, NoMeta
\* What one step remembers anew: a place of one object in memory, in its metadata,
\* or in one operation.
<1>m. ASSUME NEW o \in Objects, NEW p \in Place, PlaceOk(o, p), mem' = [mem EXCEPT ![o] = p] \/ mem' = mem,
             NEW m, m \in Meta, PlaceOk(o, m.place), meta' = [meta EXCEPT ![o] = m] \/ meta' = meta,
             NEW t \in Threads, NEW x, x.o \in Objects \cup {0}, x.place \in Place, x.old.place \in Place,
             PlaceOk(x.o, x.place), PlaceOk(x.o, x.old.place), io' = [io EXCEPT ![t] = x] \/ io' = io
      PROVE  PlacesOk'
  <2>1. ASSUME NEW e \in Objects
        PROVE  \E p1 \in Place, q1 \in Place : p1 = mem'[e] /\ q1 = meta'[e].place /\ PlaceOk(e, p1) /\ PlaceOk(e, q1)
    <3>1. mem'[e] = mem[e] \/ (e = o /\ mem'[e] = p)
      BY <1>m, <1>s DEF StoreTypes
    <3>2. meta'[e] = meta[e] \/ (e = o /\ meta'[e] = m)
      BY <1>m, <1>s DEF StoreTypes
    <3>3. m.place \in Place
      BY <1>m DEF Meta
    <3> QED
      BY <3>1, <3>2, <3>3, <1>o, <1>m
  <2>2. ASSUME NEW u \in Threads
        PROVE  \E e \in Objects \cup {0}, p1 \in Place, q1 \in Place : e = io'[u].o /\ p1 = io'[u].place /\ q1 = io'[u].old.place
                                                 /\ PlaceOk(e, p1) /\ PlaceOk(e, q1)
    <3>1. io'[u] = io[u] \/ io'[u] = x
      BY <1>m, <1>s DEF StoreTypes
    <3>2. CASE io'[u] = io[u]
      <4>1. /\ io[u].place \in Place /\ io[u].old.place \in Place
            /\ PlaceOk(io[u].o, io[u].place) /\ PlaceOk(io[u].o, io[u].old.place)
        BY <1>t
      <4>2. io[u].o \in Objects \cup {0}
        BY <1>s DEF StoreTypes
      <4> QED
        BY <3>2, <4>1, <4>2
    <3>3. CASE io'[u] = x
      BY <3>3, <1>m
    <3> QED
      BY <3>1, <3>2, <3>3
  <2> QED
    BY <2>1, <2>2, <1>g, PlacesKeep DEF NewPlaces
<1>e. \A o \in Objects : meta[o] \in Meta
  BY <1>s DEF StoreTypes
<1>1. ASSUME NEW t \in Threads, NEW o \in Objects, Put(t, o) PROVE PlacesOk'
  <2> DEFINE x == [AtRest EXCEPT !.pc = "bytes", !.o = o]
  <2>1. x.place = Nowhere /\ x.old.place = Nowhere /\ x.o = o
    BY <1>n DEF AtRest
  <2>2. io' = [io EXCEPT ![t] = x] \/ io' = io
    BY <1>1 DEF Put
  <2> HIDE DEF x
  <2>3. PICK p \in Place : PlaceOk(o, p) /\ (mem' = [mem EXCEPT ![o] = p] \/ mem' = mem)
    BY <1>1, <1>s, LookupOk DEF Put
  <2>4. meta' = meta
    BY <1>1 DEF Put
  <2> QED
    BY <2>1, <2>2, <2>3, <2>4, <1>m, <1>n, <1>o, <1>e
<1>2. ASSUME NEW t \in Threads, NEW o \in Objects, Commit(t, o) PROVE PlacesOk'
  <2> DEFINE x == [AtRest EXCEPT !.pc = "bytes", !.o = o]
  <2>1. x.place = Nowhere /\ x.old.place = Nowhere /\ x.o = o
    BY <1>n DEF AtRest
  <2>2. io' = [io EXCEPT ![t] = x] /\ mem' = mem /\ meta' = meta
    BY <1>2 DEF Commit
  <2> HIDE DEF x
  <2> QED
    BY <2>1, <2>2, <1>m, <1>n, <1>o, <1>e
<1>3. ASSUME NEW t \in Threads, NEW o \in Objects, Fetch(t, o) PROVE PlacesOk'
  <2> DEFINE x == [AtRest EXCEPT !.pc = "meta", !.o = o, !.place = OwnFile]
  <2>1. x.place = OwnFile /\ x.old.place = Nowhere /\ x.o = o
    BY <1>n DEF AtRest
  <2>2. io' = [io EXCEPT ![t] = x] /\ mem' = mem /\ meta' = meta
    BY <1>3 DEF Fetch
  <2> HIDE DEF x
  <2> QED
    BY <2>1, <2>2, <1>m, <1>n, <1>o, <1>e
<1>4. ASSUME NEW t \in Threads, NEW o \in Objects, Lookup4Read(t, o) PROVE PlacesOk'
  <2>1. PICK p \in Place : /\ PlaceOk(o, p) /\ (mem' = mem \/ mem' = [mem EXCEPT ![o] = p]) /\ meta' = meta
                           /\ io' = [io EXCEPT ![t] = [pc |-> "touch", o |-> o, place |-> p, old |-> meta[o]]]
    BY <1>4, <1>s, LookupOk DEF Lookup4Read
  <2> DEFINE x == [pc |-> "touch", o |-> o, place |-> p, old |-> meta[o]]
  <2>2. x.place = p /\ x.old.place = meta[o].place /\ x.o = o /\ io' = [io EXCEPT ![t] = x]
    BY <2>1
  <2> HIDE DEF x
  <2> QED
    BY <2>1, <2>2, <1>m, <1>n, <1>o, <1>e
<1>5. ASSUME NEW t \in Threads, ReplaceFile(t) PROVE PlacesOk'
  <2> DEFINE x == [io[t] EXCEPT !.pc = "meta", !.place = OwnFile]
  <2>0. io[t].o \in Objects
    BY <1>5, <1>s DEF ReplaceFile, StoreTypes
  <2>1. x.place = OwnFile /\ x.old = io[t].old /\ x.o = io[t].o
    BY <1>s DEF StoreTypes
  <2>2. io' = [io EXCEPT ![t] = x] /\ mem' = mem /\ meta' = meta
    BY <1>5 DEF ReplaceFile
  <2> HIDE DEF x
  <2> QED
    BY <2>0, <2>1, <2>2, <1>m, <1>n, <1>o, <1>t, <1>e
<1>6. ASSUME NEW t \in Threads, StoreMeta(t) PROVE PlacesOk'
  <2>0. io[t].o \in Objects
    BY <1>6, <1>s DEF StoreMeta, StoreTypes
  <2> DEFINE m == [on |-> TRUE, place |-> io[t].place, pins |-> {}]
             x == IF t \in Workers THEN AtRest ELSE [io[t] EXCEPT !.pc = "mem"]
  <2>1. m.place = io[t].place /\ m \in Meta
    BY <1>t DEF Meta
  <2>2. x.place \in {Nowhere, io[t].place} /\ x.old.place \in {Nowhere, io[t].old.place}
        /\ (x.o = io[t].o \/ (x.o = 0 /\ x.place = Nowhere /\ x.old.place = Nowhere))
    BY <1>n, <1>s DEF StoreTypes
  <2>3. io' = [io EXCEPT ![t] = x] /\ mem' = mem /\ meta' = [meta EXCEPT ![io[t].o] = m]
    BY <1>6 DEF StoreMeta, Writes
  <2> HIDE DEF x, m
  <2>4. /\ x.o \in Objects \cup {0} /\ x.place \in Place /\ x.old.place \in Place
        /\ PlaceOk(x.o, x.place) /\ PlaceOk(x.o, x.old.place)
    BY <2>0, <2>2, <1>n, <1>t
  <2>5. PlaceOk(io[t].o, m.place)
    BY <2>1, <1>t
  <2> QED
    BY <2>0, <2>1, <2>3, <2>4, <2>5, <1>m, <1>n, <1>o
<1>7. ASSUME NEW t \in Threads, Remember(t) PROVE PlacesOk'
  <2>0. io[t].o \in Objects
    BY <1>7, <1>s DEF Remember, StoreTypes
  <2>1. io' = [io EXCEPT ![t] = AtRest] /\ mem' = [mem EXCEPT ![io[t].o] = io[t].place] /\ meta' = meta
    BY <1>7 DEF Remember
  <2> QED
    BY <2>0, <2>1, <1>m, <1>n, <1>o, <1>t, <1>e
<1>8. ASSUME NEW t \in Threads, Touch(t) PROVE PlacesOk'
  <2>0. io[t].o \in Objects /\ io[t].old \in Meta
    BY <1>8, <1>s DEF Touch, StoreTypes
  <2> DEFINE x == [io[t] EXCEPT !.pc = "open", !.old = NoMeta]
             k == [on |-> TRUE, place |-> OwnFile, pins |-> {}]
  <2>1. x.place = io[t].place /\ x.old = NoMeta /\ x.o = io[t].o
    BY <1>s DEF StoreTypes
  <2>2. k \in Meta /\ k.place = OwnFile
    BY <1>n DEF Meta, Place
  <2>3. io' = [io EXCEPT ![t] = x] /\ mem' = mem
        /\ (meta' = meta \/ meta' = [meta EXCEPT ![io[t].o] = io[t].old] \/ meta' = [meta EXCEPT ![io[t].o] = k])
    BY <1>8 DEF Touch, Writes
  <2> HIDE DEF x, k
  <2>4. PICK m \in {io[t].old, k} : meta' = meta \/ meta' = [meta EXCEPT ![io[t].o] = m]
    BY <2>3
  <2>5. m \in Meta /\ PlaceOk(io[t].o, m.place)
    BY <2>0, <2>2, <2>4, <1>n, <1>t
  <2> QED
    BY <2>0, <2>1, <2>3, <2>4, <2>5, <1>m, <1>n, <1>o, <1>t
<1>9. ASSUME NEW t \in Threads, SkipTouch(t) PROVE PlacesOk'
  <2>0. io[t].o \in Objects
    BY <1>9, <1>s DEF SkipTouch, StoreTypes
  <2> DEFINE x == [io[t] EXCEPT !.pc = "open", !.old = NoMeta]
  <2>1. x.place = io[t].place /\ x.old = NoMeta /\ x.o = io[t].o
    BY <1>s DEF StoreTypes
  <2>2. io' = [io EXCEPT ![t] = x] /\ mem' = mem /\ meta' = meta
    BY <1>9 DEF SkipTouch
  <2> HIDE DEF x
  <2> QED
    BY <2>0, <2>1, <2>2, <1>m, <1>n, <1>o, <1>t, <1>e
<1>10. ASSUME NEW t \in Threads, Open(t) PROVE PlacesOk'
  <2>0. io[t].o \in Objects
    BY <1>10, <1>s DEF Open, StoreTypes
  <2>2. io' = [io EXCEPT ![t] = AtRest] /\ mem' = mem /\ meta' = meta
    BY <1>10 DEF Open
  <2> QED
    BY <2>0, <2>2, <1>m, <1>n, <1>o, <1>e
<1> QED
  BY <1>g, <1>1, <1>2, <1>3, <1>4, <1>5, <1>6, <1>7, <1>8, <1>9, <1>10

\* Metadata that is written.
LEMMA WritesPins ==
  ASSUME StoreTypes, PinsOk, NEW o \in Objects, NEW m \in Meta, m.on, Writes(o, m),
         UNCHANGED <<objOf, own, seg, held>>
  PROVE  PinsOk'
<1>1. meta' = [meta EXCEPT ![o] = m] /\ (\A r \in held : objOf[r] = o /\ r \notin m.pins => r \in excused')
      /\ excused \subseteq excused'
  BY DEF Writes, HeldFor
<1>2. torn' = (torn \ {o}) \cup (IF There(o, m.place) THEN {} ELSE {o})
  BY DEF Writes
<1>3. ASSUME NEW e \in Objects, meta'[e].on, e \notin torn' PROVE There(e, meta[e].place)'
  <2>1. There(e, meta'[e].place)
    <3>1. CASE e = o
      BY <3>1, <1>1, <1>2, <1>3 DEF StoreTypes
    <3>2. CASE e # o
      BY <3>2, <1>1, <1>2, <1>3 DEF StoreTypes, PinsOk
    <3> QED
      BY <3>1, <3>2
  <2> QED
    BY <2>1 DEF There
<1>4. ASSUME NEW r \in held' \ excused' PROVE meta'[objOf'[r]].on /\ r \in meta'[objOf'[r]].pins
  <2>1. objOf[r] \in Objects /\ r \in held \ excused
    BY <1>1 DEF StoreTypes
  <2>2. CASE objOf[r] = o
    BY <2>1, <2>2, <1>1 DEF StoreTypes
  <2>3. CASE objOf[r] # o
    BY <2>1, <2>3, <1>1 DEF StoreTypes, PinsOk
  <2> QED
    BY <2>2, <2>3
<1>5. \A e \in Objects : ~meta'[e].on => meta'[e].place = Nowhere
  BY <1>1 DEF StoreTypes, PinsOk
<1> QED
  BY <1>3, <1>4, <1>5 DEF PinsOk

\* The steps that touch no segment and no pin.
LEMMA StorePinsStay ==
  ASSUME StoreInv, UNCHANGED objOf, UNCHANGED seg,
         \/ \E t \in Threads, o \in Objects : Put(t, o) \/ Commit(t, o) \/ Fetch(t, o) \/ Lookup4Read(t, o)
         \/ \E t \in Threads : ReplaceFile(t) \/ StoreMeta(t) \/ Remember(t) \/ Touch(t) \/ SkipTouch(t) \/ Open(t)
  PROVE  PinsOk'
<1>s. StoreTypes /\ PinsOk
  BY DEF StoreInv
<1>1. CASE UNCHANGED <<meta, held, excused, torn>> /\ own \subseteq own'
  <2>1. ASSUME NEW e \in Objects, meta[e].on, e \notin torn PROVE There(e, meta[e].place)'
    <3>1. There(e, meta[e].place)
      BY <2>1, <1>s DEF PinsOk
    <3> QED
      BY <3>1, <1>1 DEF There
  <2> QED
    BY <2>1, <1>1, <1>s DEF PinsOk
<1>2. ASSUME NEW t \in Threads, NEW m \in Meta, m.on, Writes(io[t].o, m), io[t].o \in Objects, UNCHANGED <<own, held>>
      PROVE PinsOk'
  BY <1>2, <1>s, WritesPins
<1>3. ASSUME NEW t \in Threads, StoreMeta(t) PROVE PinsOk'
  <2> DEFINE m == [on |-> TRUE, place |-> io[t].place, pins |-> {}]
  <2>1. io[t].o \in Objects /\ m \in Meta /\ m.on
    BY <1>3, <1>s DEF StoreMeta, StoreTypes, Meta
  <2>2. Writes(io[t].o, m) /\ UNCHANGED <<own, held>>
    BY <1>3 DEF StoreMeta
  <2> HIDE DEF m
  <2> QED
    BY <2>1, <2>2, <1>2
<1>4. ASSUME NEW t \in Threads, Touch(t) PROVE PinsOk'
  <2> DEFINE k == [on |-> TRUE, place |-> OwnFile, pins |-> {}]
  <2>0. io[t].o \in Objects /\ io[t].old \in Meta
    BY <1>4, <1>s DEF Touch, StoreTypes
  <2>1. k \in Meta /\ k.on
    BY DEF Meta, Place
  <2>2. /\ UNCHANGED <<own, held>>
        /\ \/ io[t].old.on /\ Writes(io[t].o, io[t].old)
           \/ Writes(io[t].o, k)
           \/ UNCHANGED <<meta, excused, torn>>
    BY <1>4 DEF Touch
  <2> HIDE DEF k
  <2> QED
    BY <2>0, <2>1, <2>2, <1>1, <1>2
<1>5. ASSUME NEW t \in Threads, NEW o \in Objects, Put(t, o) \/ Commit(t, o) \/ Fetch(t, o) \/ Lookup4Read(t, o)
      PROVE PinsOk'
  BY <1>1, <1>5 DEF Put, Commit, Fetch, Lookup4Read
<1>6. ASSUME NEW t \in Threads, ReplaceFile(t) \/ Remember(t) \/ SkipTouch(t) \/ Open(t) PROVE PinsOk'
  BY <1>1, <1>6 DEF ReplaceFile, Remember, SkipTouch, Open
<1> QED
  BY <1>3, <1>4, <1>5, <1>6

\* The segment a writer appends to is a new one, or one it has room in.
LEMMA AppendKeeps ==
  ASSUME StoreInv, UNCHANGED objOf, NEW t \in Threads, Append2Segment(t)
  PROVE  StoreInv'
<1>s. StoreTypes /\ PlacesOk /\ SegsOk /\ PinsOk
  BY DEF StoreInv
<1>o. io[t].o \in Objects /\ io[t].pc = "bytes"
  BY <1>s DEF Append2Segment, StoreTypes
<1>1. PICK s \in SegmentFor(Process(t)) :
        /\ seg' = [seg EXCEPT ![s] = [on |-> TRUE, used |-> TRUE, bytes |-> Append(@.bytes, io[t].o)]]
        /\ cur' = [cur EXCEPT ![Process(t)] = s]
        /\ io' = [io EXCEPT ![t].pc = "meta", ![t].place = <<s, Len(seg[s].bytes) + 1>>]
  BY DEF Append2Segment
<1>u. UNCHANGED <<objOf, meta, own, mem, held, excused, torn>>
  BY DEF Append2Segment
<1>2. s \in Segs /\ Process(t) \in {"node"} \cup Workers
  <2>1. Process(t) \in {"node"} \cup Workers
    BY DEF Process
  <2>2. cur[Process(t)] \in Segs \cup {0}
    BY <2>1, <1>s DEF StoreTypes
  <2> QED
    BY <2>1, <2>2 DEF SegmentFor, Fits
<1>3. (seg[s].on \/ ~seg[s].used) /\ seg[s].bytes \in Seq(Objects) /\ (~seg[s].on => seg[s].bytes = <<>>)
  BY <1>2, <1>s DEF SegmentFor, Fits, StoreTypes, SegsOk
<1> DEFINE b == Append(seg[s].bytes, io[t].o)
           n == Len(seg[s].bytes) + 1
<1>4. b \in Seq(Objects) /\ n \in DOMAIN b /\ b[n] = io[t].o /\ n \in Nat
      /\ \A i \in DOMAIN seg[s].bytes : i \in DOMAIN b /\ b[i] = seg[s].bytes[i]
  BY <1>3, <1>o
<1>5. \A q \in Segs : seg'[q] = IF q = s THEN [on |-> TRUE, used |-> TRUE, bytes |-> b] ELSE seg[q]
  BY <1>1, <1>2, <1>s DEF StoreTypes
<1> DEFINE x == [io[t] EXCEPT !.pc = "meta", !.place = <<s, n>>]
<1>6. io' = [io EXCEPT ![t] = x]
  BY <1>1
<1>7. x.o = io[t].o /\ x.pc = "meta" /\ x.place = <<s, n>> /\ x.old = io[t].old
      /\ x \in [pc : {"rest", "bytes", "meta", "mem", "touch", "open"}, o : Objects \cup {0}, place : Place, old : Meta]
  <2>1. <<s, n>> \in Place
    BY <1>2, <1>4 DEF Place
  <2> HIDE DEF n
  <2> QED
    BY <2>1, <1>s DEF StoreTypes
<1>8. seg' \in [Segs -> [on : BOOLEAN, used : BOOLEAN, bytes : Seq(Objects)]]
  <2>1. [on |-> TRUE, used |-> TRUE, bytes |-> b] \in [on : BOOLEAN, used : BOOLEAN, bytes : Seq(Objects)]
    BY <1>4
  <2>2. seg' = [seg EXCEPT ![s] = [on |-> TRUE, used |-> TRUE, bytes |-> b]]
    BY <1>1
  <2> HIDE DEF b
  <2> QED
    BY <2>1, <2>2, <1>s DEF StoreTypes
<1> HIDE DEF b, n, x
<1>9. StoreTypes'
  <2>1. cur' \in [{"node"} \cup Workers -> Segs \cup {0}]
    BY <1>1, <1>2, <1>s DEF StoreTypes
  <2>2. io' \in [Threads -> [pc : {"rest", "bytes", "meta", "mem", "touch", "open"}, o : Objects \cup {0},
                            place : Place, old : Meta]]
    BY <1>6, <1>7, <1>s DEF StoreTypes
  <2>3. \A u \in Threads : io'[u].pc # "rest" => io'[u].o \in Objects
    BY <1>6, <1>7, <1>o, <1>s DEF StoreTypes
  <2> QED
    BY <2>1, <2>2, <2>3, <1>8, <1>u, <1>s DEF StoreTypes
<1>10. Grows
  BY <1>3, <1>4, <1>5, <1>s DEF Grows, SegsOk
<1>11. SegsOk'
  BY <1>5, <1>s DEF SegsOk
<1>12. PlacesOk'
  <2>1. ASSUME NEW e \in Objects PROVE (PlaceOk(e, mem[e]) /\ PlaceOk(e, meta[e].place))'
    <3>1. mem[e] \in Place /\ meta[e].place \in Place /\ PlaceOk(e, mem[e]) /\ PlaceOk(e, meta[e].place)
      BY <1>s, LookupOk
    <3>2. PICK p \in Place, q \in Place : p = mem[e] /\ q = meta[e].place
      BY <3>1
    <3>3. PlaceOk(e, p)' /\ PlaceOk(e, q)'
      BY <3>1, <3>2, <1>10, PlaceStays
    <3> QED
      BY <3>2, <3>3, <1>u DEF PlaceOk
  <2>2. ASSUME NEW u \in Threads, u # t
        PROVE  (PlaceOk(io[u].o, io[u].place) /\ PlaceOk(io[u].o, io[u].old.place))'
    <3>1. io[u].place \in Place /\ io[u].old.place \in Place
          /\ PlaceOk(io[u].o, io[u].place) /\ PlaceOk(io[u].o, io[u].old.place)
      BY <1>s DEF StoreTypes, Meta, PlacesOk
    <3>2. PICK p \in Place, q \in Place : p = io[u].place /\ q = io[u].old.place
      BY <3>1
    <3>3. PICK e : e = io[u].o
      OBVIOUS
    <3>4. PlaceOk(e, p)' /\ PlaceOk(e, q)'
      BY <3>1, <3>2, <3>3, <1>10, PlaceStays
    <3>5. io'[u] = io[u]
      BY <2>2, <1>6, <1>s DEF StoreTypes
    <3> QED
      BY <3>2, <3>3, <3>4, <3>5 DEF PlaceOk
  <2>3. (PlaceOk(io[t].o, io[t].place) /\ PlaceOk(io[t].o, io[t].old.place))'
    <3>1. io[t].old.place \in Place /\ PlaceOk(io[t].o, io[t].old.place)
      BY <1>s DEF StoreTypes, Meta, PlacesOk
    <3>2. PICK q \in Place : q = io[t].old.place
      BY <3>1
    <3>3. PICK e : e = io[t].o
      OBVIOUS
    <3>4. PlaceOk(e, q)'
      BY <3>1, <3>2, <3>3, <1>10, PlaceStays
    <3>5. io'[t].o = e /\ io'[t].old.place = q /\ io'[t].place = <<s, n>>
      BY <1>6, <1>7, <3>2, <3>3, <1>s DEF StoreTypes
    <3>6. seg'[s].used /\ n \in DOMAIN seg'[s].bytes /\ seg'[s].bytes[n] = e
      BY <1>2, <1>4, <1>5, <3>3
    <3> QED
      BY <3>4, <3>5, <3>6 DEF PlaceOk
  <2> QED
    BY <2>1, <2>2, <2>3 DEF PlacesOk
<1>13. PinsOk'
  <2>1. ASSUME NEW e \in Objects, meta[e].on, e \notin torn PROVE There(e, meta[e].place)'
    <3>1. There(e, meta[e].place) /\ meta[e].place \in Place
      BY <2>1, <1>s DEF PinsOk, StoreTypes, Meta
    <3> QED
      BY <3>1, <1>5, <1>u DEF There, Place
  <2> QED
    BY <2>1, <1>u, <1>s DEF PinsOk
<1> QED
  BY <1>9, <1>11, <1>12, <1>13 DEF StoreInv

\* One object's places change in memory and in its metadata.
LEMMA ObjectPlaces ==
  ASSUME Grows, StoreTypes, PlacesOk, NEW o \in Objects,
         NEW p \in Place, PlaceOk(o, p), mem' = [mem EXCEPT ![o] = p],
         NEW m \in Meta, PlaceOk(o, m.place), meta' = [meta EXCEPT ![o] = m] \/ meta' = meta, io' = io
  PROVE  PlacesOk'
<1>1. ASSUME NEW e \in Objects
      PROVE  \E p1 \in Place, q1 \in Place : p1 = mem'[e] /\ q1 = meta'[e].place /\ PlaceOk(e, p1) /\ PlaceOk(e, q1)
  <2>1. mem'[e] = mem[e] \/ (e = o /\ mem'[e] = p)
    BY DEF StoreTypes
  <2>2. meta'[e] = meta[e] \/ (e = o /\ meta'[e] = m)
    BY DEF StoreTypes
  <2>3. m.place \in Place
    BY DEF Meta
  <2>4. /\ mem[e] \in Place /\ meta[e].place \in Place /\ PlaceOk(e, mem[e]) /\ PlaceOk(e, meta[e].place)
    BY LookupOk
  <2> QED
    BY <2>1, <2>2, <2>3, <2>4
<1>2. ASSUME NEW u \in Threads
      PROVE  \E e \in Objects \cup {0}, p1 \in Place, q1 \in Place :
               e = io'[u].o /\ p1 = io'[u].place /\ q1 = io'[u].old.place /\ PlaceOk(e, p1) /\ PlaceOk(e, q1)
  <2>1. /\ io[u].o \in Objects \cup {0} /\ io[u].place \in Place /\ io[u].old.place \in Place
        /\ PlaceOk(io[u].o, io[u].place) /\ PlaceOk(io[u].o, io[u].old.place)
    BY DEF StoreTypes, Meta, PlacesOk
  <2> QED
    BY <2>1
<1> QED
  BY <1>1, <1>2, PlacesKeep DEF NewPlaces

\* A pin is written into the metadata of the object, or metadata is made up for it.
LEMMA PinKeeps ==
  ASSUME StoreInv, UNCHANGED objOf, NEW r \in Refs, Pin(r)
  PROVE  StoreInv'
<1>s. StoreTypes /\ PlacesOk /\ SegsOk /\ PinsOk
  BY DEF StoreInv
<1> DEFINE o == objOf[r]
           p == IF mem[o] # Nowhere THEN mem[o] ELSE IF meta[o].on THEN meta[o].place ELSE Nowhere
           m1 == [meta[o] EXCEPT !.pins = @ \cup {r}]
           m2 == [on |-> TRUE, place |-> OwnFile, pins |-> {r}]
<1>o. o \in Objects
  BY <1>s DEF StoreTypes
<1>p. p \in Place /\ PlaceOk(o, p)
  BY <1>o, <1>s, LookupOk
<1>m. /\ m1 \in Meta /\ m1.place = meta[o].place /\ m1.on = meta[o].on /\ m1.pins = meta[o].pins \cup {r}
      /\ m2 \in Meta /\ m2.place = OwnFile /\ m2.on /\ m2.pins = {r}
  BY <1>o, <1>s DEF StoreTypes, Meta, Place
<1>1. /\ r \notin held /\ mem' = [mem EXCEPT ![o] = p] /\ excused' = excused \ {r}
      /\ UNCHANGED <<own, seg, cur, io>>
      /\ \/ meta[o].on /\ meta' = [meta EXCEPT ![o] = m1] /\ held' = held \cup {r} /\ torn' = torn
         \/ /\ ~meta[o].on /\ meta' = [meta EXCEPT ![o] = m2] /\ held' = held \cup {r}
            /\ torn' = IF o \in own THEN torn ELSE torn \cup {o}
         \/ UNCHANGED <<meta, held, torn>>
  BY DEF Pin
<1> HIDE DEF o, p, m1, m2
<1>2. PICK m \in Meta : PlaceOk(o, m.place) /\ (meta' = [meta EXCEPT ![o] = m] \/ meta' = meta)
  BY <1>1, <1>m, <1>o, <1>s, LookupOk
<1>3. StoreTypes'
  <2>1. mem' \in [Objects -> Place] /\ meta' \in [Objects -> Meta] /\ held' \subseteq Refs
    BY <1>1, <1>2, <1>p, <1>o, <1>s DEF StoreTypes
  <2> QED
    BY <2>1, <1>1, <1>s DEF StoreTypes
<1>4. Grows /\ SegsOk'
  BY <1>1, <1>s DEF Grows, SegsOk
<1>5. PlacesOk'
  BY <1>1, <1>2, <1>4, <1>o, <1>p, <1>s, ObjectPlaces
<1>6. PinsOk'
  <2>1. ASSUME NEW e \in Objects, meta'[e].on, e \notin torn' PROVE There(e, meta[e].place)'
    <3>1. There(e, meta'[e].place)
      <4>1. CASE meta'[e].place = meta[e].place /\ meta[e].on
        BY <4>1, <2>1, <1>1, <1>s DEF PinsOk
      <4>2. CASE e = o /\ meta' = [meta EXCEPT ![o] = m2] /\ o \in own
        BY <4>2, <1>m, <1>o, <1>s DEF StoreTypes, There, Nowhere, OwnFile
      <4> QED
        BY <4>1, <4>2, <2>1, <1>1, <1>m, <1>o, <1>s DEF StoreTypes
    <3> QED
      BY <3>1, <1>1 DEF There
  <2>2. ASSUME NEW q \in held' \ excused' PROVE meta'[objOf[q]].on /\ q \in meta'[objOf[q]].pins
    <3>1. objOf[q] \in Objects
      BY <2>2, <1>3 DEF StoreTypes
    <3>2. CASE q = r
      BY <3>2, <2>2, <1>1, <1>m, <1>o, <1>s DEF StoreTypes, o
    <3>3. CASE q # r
      <4>1. meta[objOf[q]].on /\ q \in meta[objOf[q]].pins
        BY <3>3, <2>2, <1>1, <1>s DEF PinsOk
      <4>2. CASE objOf[q] = o
        BY <4>1, <4>2, <2>2, <1>1, <1>m, <1>o, <1>s DEF StoreTypes
      <4>3. CASE objOf[q] # o
        BY <4>1, <4>3, <3>1, <1>1, <1>s DEF StoreTypes
      <4> QED
        BY <4>2, <4>3
    <3> QED
      BY <3>2, <3>3
  <2>3. \A e \in Objects : ~meta'[e].on => meta'[e].place = Nowhere
    BY <1>1, <1>m, <1>o, <1>s DEF StoreTypes, PinsOk
  <2> QED
    BY <1>1, <2>1, <2>2, <2>3 DEF PinsOk
<1> QED
  BY <1>3, <1>4, <1>5, <1>6 DEF StoreInv

\* The last release deletes the object and, if nothing else is in it, its segment.
LEMMA ReleaseKeeps ==
  ASSUME StoreInv, UNCHANGED objOf, NEW r \in Refs, ReleaseRef(r)
  PROVE  StoreInv'
<1>s. StoreTypes /\ PlacesOk /\ SegsOk /\ PinsOk
  BY DEF StoreInv
<1> DEFINE o == objOf[r]
           left == meta[o].pins \ {r}
           p == IF mem[o] # Nowhere THEN mem[o] ELSE meta[o].place
           m1 == [meta[o] EXCEPT !.pins = left]
           k == [meta EXCEPT ![o] = NoMeta]
<1>o. o \in Objects
  BY <1>s DEF StoreTypes
<1>p. p \in Place /\ PlaceOk(o, p)
  BY <1>o, <1>s, LookupOk
<1>m. /\ m1 \in Meta /\ m1.place = meta[o].place /\ m1.on = meta[o].on /\ m1.pins = left
      /\ NoMeta \in Meta /\ ~NoMeta.on /\ NoMeta.place = Nowhere
  BY <1>o, <1>s DEF StoreTypes, Meta, Place, NoMeta
<1>1. /\ r \in held /\ held' = held \ {r} /\ excused' = excused \ {r} /\ UNCHANGED <<cur, io, torn>>
      /\ \/ mem' = [mem EXCEPT ![o] = p] /\ UNCHANGED <<meta, own, seg>>
         \/ mem' = [mem EXCEPT ![o] = p] /\ meta' = [meta EXCEPT ![o] = m1] /\ UNCHANGED <<own, seg>>
         \/ left = {} /\ DeleteArtifact(o, p)
  BY DEF ReleaseRef
<1> HIDE DEF o, p, m1, left
<1>2. CASE mem' = [mem EXCEPT ![o] = p] /\ (meta' = [meta EXCEPT ![o] = m1] \/ meta' = meta) /\ UNCHANGED <<own, seg>>
  <2>1. StoreTypes'
    <3>1. mem' \in [Objects -> Place] /\ meta' \in [Objects -> Meta] /\ held' \subseteq Refs
      BY <1>1, <1>2, <1>m, <1>p, <1>o, <1>s DEF StoreTypes
    <3> QED
      BY <3>1, <1>1, <1>2, <1>s DEF StoreTypes
  <2>2. Grows /\ SegsOk'
    BY <1>2, <1>s DEF Grows, SegsOk
  <2>3. PlaceOk(o, m1.place)
    BY <1>m, <1>o, <1>s, LookupOk
  <2>4. PlacesOk'
    BY <2>2, <2>3, <1>1, <1>2, <1>m, <1>o, <1>p, <1>s, ObjectPlaces
  <2>5. \A e \in Objects : /\ meta'[e].on = meta[e].on /\ meta'[e].place = meta[e].place
                           /\ \A q \in meta[e].pins : q # r => q \in meta'[e].pins
    BY <1>2, <1>m, <1>o, <1>s DEF StoreTypes, left
  <2>6. ASSUME NEW e \in Objects, meta'[e].on, e \notin torn' PROVE There(e, meta[e].place)'
    BY <2>5, <2>6, <1>1, <1>2, <1>s DEF PinsOk, There
  <2>7. ASSUME NEW q \in held' \ excused' PROVE meta'[objOf[q]].on /\ q \in meta'[objOf[q]].pins
    <3>1. q # r /\ q \in held \ excused /\ objOf[q] \in Objects
      BY <2>7, <1>1, <1>s DEF StoreTypes
    <3> QED
      BY <3>1, <2>5, <1>s DEF PinsOk
  <2>8. \A e \in Objects : ~meta'[e].on => meta'[e].place = Nowhere
    BY <2>5, <1>s DEF PinsOk
  <2> QED
    BY <2>1, <2>2, <2>4, <2>6, <2>7, <2>8 DEF StoreInv, PinsOk
<1>3. CASE left = {} /\ DeleteArtifact(o, p)
  <2>1. /\ mem' = [mem EXCEPT ![o] = Nowhere] /\ meta' = [meta EXCEPT ![o] = NoMeta]
        /\ own \ {o} \subseteq own'
        /\ \A e \in own : e # o => e \in own'
    BY <1>3 DEF DeleteArtifact
  <2>2. \A s \in Segs : \/ seg'[s] = seg[s]
                        \/ /\ seg'[s] = [seg[s] EXCEPT !.on = FALSE, !.bytes = <<>>]
                           /\ \A e \in Objects : ~(meta'[e].on /\ meta'[e].place[1] = s)
    <3>1. \A s \in Segs : seg'[s] = IF s = p[1] /\ Cleanup(s, k)
                                     THEN [seg[s] EXCEPT !.on = FALSE, !.bytes = <<>>] ELSE seg[s]
      BY <1>3 DEF DeleteArtifact
    <3>2. meta' = k
      BY <2>1
    <3> HIDE DEF k
    <3> QED
      BY <3>1, <3>2 DEF Cleanup, Orphan
  <2> HIDE DEF k
  <2>3. \A s \in Segs : /\ seg'[s].used = seg[s].used
                        /\ \/ seg'[s].on = seg[s].on /\ seg'[s].bytes = seg[s].bytes
                           \/ /\ seg'[s].on = FALSE /\ seg'[s].bytes = <<>>
                              /\ \A e \in Objects : ~(meta'[e].on /\ meta'[e].place[1] = s)
                        /\ seg'[s] \in [on : BOOLEAN, used : BOOLEAN, bytes : Seq(Objects)]
    <3> TAKE s \in Segs
    <3>1. PICK x \in [on : BOOLEAN, used : BOOLEAN, bytes : Seq(Objects)] : x = seg[s]
      BY <1>s DEF StoreTypes
    <3> DEFINE y == [x EXCEPT !.on = FALSE, !.bytes = <<>>]
    <3>2. <<>> \in Seq(Objects)
      OBVIOUS
    <3>3. y.used = x.used /\ y.on = FALSE /\ y.bytes = <<>> /\ y \in [on : BOOLEAN, used : BOOLEAN, bytes : Seq(Objects)]
      BY <3>2
    <3>4. \/ seg'[s] = x
          \/ seg'[s] = y /\ \A e \in Objects : ~(meta'[e].on /\ meta'[e].place[1] = s)
      BY <2>2, <3>1
    <3> HIDE DEF y
    <3> QED
      BY <3>1, <3>3, <3>4
  <2>4. seg' \in [Segs -> [on : BOOLEAN, used : BOOLEAN, bytes : Seq(Objects)]]
    <3>1. \A s \in Segs : seg'[s] \in [on : BOOLEAN, used : BOOLEAN, bytes : Seq(Objects)]
      BY <2>3
    <3>2. seg' = [s \in Segs |-> seg'[s]]
      BY <1>3 DEF DeleteArtifact
    <3> QED
      BY <3>1, <3>2
  <2>5. StoreTypes'
    <3>1. mem' \in [Objects -> Place] /\ meta' \in [Objects -> Meta] /\ held' \subseteq Refs
      BY <1>1, <2>1, <1>m, <1>o, <1>s DEF StoreTypes, Place
    <3> QED
      BY <3>1, <2>4, <1>1, <1>s DEF StoreTypes
  <2>6. Grows /\ SegsOk'
    BY <2>3, <1>s DEF Grows, SegsOk
  <2>7. PlacesOk'
    BY <2>1, <2>6, <1>1, <1>m, <1>o, <1>s, ObjectPlaces, LookupOk
  <2>8. \A e \in Objects : meta'[e].on => e # o /\ meta'[e] = meta[e]
    BY <2>1, <1>m, <1>o, <1>s DEF StoreTypes
  <2>9. ASSUME NEW e \in Objects, meta'[e].on, e \notin torn' PROVE There(e, meta[e].place)'
    <3>1. There(e, meta[e].place) /\ meta[e].place \in Place /\ e # o /\ meta'[e] = meta[e]
      BY <2>8, <2>9, <1>1, <1>s DEF PinsOk, StoreTypes, Meta
    <3>2. There(e, meta[e].place)' <=> CASE meta[e].place = Nowhere -> FALSE
                                         [] meta[e].place = OwnFile -> e \in own'
                                         [] OTHER -> seg'[meta[e].place[1]].on
      BY <3>1 DEF There
    <3>3. CASE meta[e].place \in {Nowhere, OwnFile}
      BY <3>1, <3>2, <3>3, <2>1 DEF There
    <3>4. CASE meta[e].place \notin {Nowhere, OwnFile}
      <4>1. meta[e].place[1] \in Segs /\ seg[meta[e].place[1]].on
        BY <3>1, <3>4 DEF There, Place
      <4>2. seg'[meta[e].place[1]].on
        BY <4>1, <3>1, <2>3, <2>9
      <4> QED
        BY <3>2, <3>4, <4>2
    <3> QED
      BY <3>3, <3>4
  <2>10. ASSUME NEW q \in held' \ excused' PROVE meta'[objOf[q]].on /\ q \in meta'[objOf[q]].pins
    <3>1. q # r /\ q \in held \ excused /\ objOf[q] \in Objects
      BY <2>10, <1>1, <1>s DEF StoreTypes
    <3>2. meta[objOf[q]].on /\ q \in meta[objOf[q]].pins
      BY <3>1, <1>s DEF PinsOk
    <3>3. objOf[q] # o
      BY <3>1, <3>2, <1>3 DEF left
    <3> QED
      BY <3>1, <3>2, <3>3, <2>1, <1>s DEF StoreTypes
  <2>11. \A e \in Objects : ~meta'[e].on => meta'[e].place = Nowhere
    BY <2>1, <1>m, <1>o, <1>s DEF StoreTypes, PinsOk
  <2> QED
    BY <2>5, <2>6, <2>7, <2>9, <2>10, <2>11, <1>1 DEF StoreInv, PinsOk
<1> QED
  BY <1>1, <1>2, <1>3

\* The positions that are kept are numbered anew from 1, each once, in their order.
LEMMA RanksNumber ==
  ASSUME NEW n \in Nat, NEW L \in SUBSET (1 .. n)
  PROVE  /\ IsFiniteSet(L) /\ Cardinality(L) \in Nat
         /\ \A i \in L : Rank(L, i) \in 1 .. Cardinality(L)
         /\ \A i, j \in L : Rank(L, i) = Rank(L, j) => i = j
         /\ \A k \in 1 .. Cardinality(L) : \E i \in L : Rank(L, i) = k
<1>0. IsFiniteSet(1 .. n)
  BY FS_Interval
<1>1. IsFiniteSet(L) /\ Cardinality(L) \in Nat
  <2>1. IsFiniteSet(L)
    BY <1>0, FS_Subset
  <2> QED
    BY <2>1, FS_CardinalityType
<1> DEFINE Upto(i) == {j \in L : j <= i}
<1>2. \A i \in L : IsFiniteSet(Upto(i)) /\ Cardinality(Upto(i)) \in Nat /\ Cardinality(Upto(i)) <= Cardinality(L)
                   /\ Cardinality(Upto(i)) # 0
  <2> TAKE i \in L
  <2>1. Upto(i) \subseteq L /\ i \in Upto(i)
    OBVIOUS
  <2>2. IsFiniteSet(Upto(i)) /\ Cardinality(Upto(i)) <= Cardinality(L)
    BY <2>1, <1>1, FS_Subset
  <2> QED
    BY <2>1, <2>2, FS_CardinalityType, FS_EmptySet
<1>3. \A i \in L : Rank(L, i) = Cardinality(Upto(i))
  BY DEF Rank
<1>4. \A i \in L : Rank(L, i) \in 1 .. Cardinality(L)
  <2> HIDE DEF Upto
  <2> TAKE i \in L
  <2>1. PICK c \in Nat : c = Cardinality(L)
    BY <1>1
  <2>2. PICK u \in Nat : u = Cardinality(Upto(i))
    BY <1>2
  <2>3. u <= c /\ u # 0 /\ Rank(L, i) = u
    BY <1>2, <1>3, <2>1, <2>2
  <2> QED
    BY <2>1, <2>3
<1>5. ASSUME NEW i \in L, NEW j \in L, i < j PROVE Rank(L, i) # Rank(L, j)
  <2>1. Upto(i) \subseteq Upto(j) /\ j \in Upto(j) /\ j \notin Upto(i)
    <3>1. i \in Nat /\ j \in Nat /\ \A k \in L : k \in Nat
      OBVIOUS
    <3>2. j \in Upto(j) /\ j \notin Upto(i)
      BY <3>1, <1>5
    <3>3. ASSUME NEW k \in Upto(i) PROVE k \in Upto(j)
      BY <3>1, <3>3, <1>5
    <3> QED
      BY <3>2, <3>3
  <2>2. Upto(i) # Upto(j)
    BY <2>1
  <2> HIDE DEF Upto
  <2> QED
    BY <2>1, <2>2, <1>2, <1>3, FS_Subset
<1>6. \A i, j \in L : Rank(L, i) = Rank(L, j) => i = j
  BY <1>5
<1>7. ASSUME NEW k \in 1 .. Cardinality(L) PROVE \E i \in L : Rank(L, i) = k
  <2> DEFINE T == 1 .. Cardinality(L)
             f == [i \in L |-> Rank(L, i)]
  <2>1. f \in Injection(L, T)
    BY <1>4, <1>6 DEF Injection, IsInjective
  <2>2. IsFiniteSet(T) /\ Cardinality(T) = Cardinality(L)
    BY <1>1, FS_Interval
  <2> HIDE DEF f, T
  <2>3. f \in Surjection(L, T)
    BY <2>1, <2>2, FS_Injection
  <2> QED
    BY <2>3, <1>7 DEF Surjection, f, T
<1> QED
  BY <1>1, <1>4, <1>6, <1>7

\* gc on a stopped node: segments are compacted, and the metadata follows.
LEMMA GcKeeps ==
  ASSUME StoreInv, UNCHANGED objOf, NEW D \in SUBSET Objects, Gc(D)
  PROVE  StoreInv'
<1>s. StoreTypes /\ PlacesOk /\ SegsOk /\ PinsOk
  BY DEF StoreInv
<1> DEFINE m == [o \in Objects |-> IF o \in D THEN NoMeta ELSE meta[o]]
           L(s) == {i \in DOMAIN seg[s].bytes : \E o \in Objects : m[o].on /\ m[o].place = <<s, i>>}
           kept(s) == [k \in 1 .. Cardinality(L(s)) |->
                         seg[s].bytes[CHOOSE i \in L(s) : Rank(L(s), i) = k]]
<1>1. /\ meta' = [o \in Objects |-> IF m[o].on /\ m[o].place \notin {Nowhere, OwnFile}
                                     THEN [m[o] EXCEPT !.place[2] = Position(L(m[o].place[1]), @)] ELSE m[o]]
      /\ own' = own \ {o \in D : meta[o].place = OwnFile}
      /\ seg' = [s \in Segs |-> IF L(s) = {} THEN [seg[s] EXCEPT !.on = FALSE, !.bytes = <<>>]
                                ELSE [seg[s] EXCEPT !.bytes = kept(s)]]
      /\ excused' = excused \cup {r \in held : objOf[r] \in D}
      /\ mem' = [o \in Objects |-> Nowhere] /\ cur' = [p \in DOMAIN cur |-> 0]
      /\ io' = [t \in Threads |-> AtRest]
      /\ UNCHANGED <<held, stores, torn>>
  BY DEF Gc
<1>m. \A o \in Objects : m[o] \in Meta /\ m[o] = (IF o \in D THEN NoMeta ELSE meta[o])
  BY <1>s DEF StoreTypes, Meta, NoMeta, Place
<1>n. ~NoMeta.on /\ NoMeta.place = Nowhere /\ Nowhere \in Place /\ OwnFile \in Place /\ NoMeta \in Meta
  BY DEF NoMeta, Meta, Place
\* A segment that stays: what is kept of it.
<1>2. ASSUME NEW s \in Segs
      PROVE  /\ kept(s) \in Seq(Objects)
             /\ \A i \in L(s) : Rank(L(s), i) \in DOMAIN kept(s) /\ kept(s)[Rank(L(s), i)] = seg[s].bytes[i]
  <2> DEFINE b == seg[s].bytes
  <2>1. b \in Seq(Objects) /\ L(s) \in SUBSET (1 .. Len(b)) /\ Len(b) \in Nat
    BY <1>s DEF StoreTypes
  <2>2. /\ Cardinality(L(s)) \in Nat
        /\ \A i \in L(s) : Rank(L(s), i) \in 1 .. Cardinality(L(s))
        /\ \A i, j \in L(s) : Rank(L(s), i) = Rank(L(s), j) => i = j
        /\ \A k \in 1 .. Cardinality(L(s)) : \E i \in L(s) : Rank(L(s), i) = k
    <3>1. PICK n \in Nat : n = Len(b)
      BY <2>1
    <3>2. PICK S \in SUBSET (1 .. n) : S = L(s)
      BY <2>1, <3>1
    <3> HIDE DEF L, b
    <3>3. /\ Cardinality(S) \in Nat
          /\ \A i \in S : Rank(S, i) \in 1 .. Cardinality(S)
          /\ \A i, j \in S : Rank(S, i) = Rank(S, j) => i = j
          /\ \A k \in 1 .. Cardinality(S) : \E i \in S : Rank(S, i) = k
      BY RanksNumber
    <3> QED
      BY <3>2, <3>3
  <2>3. PICK S \in SUBSET (1 .. Len(b)) : S = L(s)
    BY <2>1
  <2> HIDE DEF L, b
  <2>4. \A k \in 1 .. Cardinality(S) : (CHOOSE i \in S : Rank(S, i) = k) \in S
                                       /\ Rank(S, CHOOSE i \in S : Rank(S, i) = k) = k
    BY <2>2, <2>3
  <2>5. kept(s) = [k \in 1 .. Cardinality(S) |-> b[CHOOSE i \in S : Rank(S, i) = k]]
    BY <2>3 DEF b
  <2>6. \A k \in 1 .. Cardinality(S) : b[CHOOSE i \in S : Rank(S, i) = k] \in Objects
    BY <2>1, <2>3, <2>4
  <2>7. kept(s) \in Seq(Objects)
    <3> HIDE DEF kept
    <3>1. kept(s) \in [1 .. Cardinality(S) -> Objects] /\ Cardinality(S) \in Nat
      BY <2>2, <2>3, <2>5, <2>6
    <3> QED
      BY <3>1
  <2>8. ASSUME NEW i \in S
        PROVE  Rank(S, i) \in DOMAIN kept(s) /\ kept(s)[Rank(S, i)] = b[i]
    <3>1. Rank(S, i) \in 1 .. Cardinality(S)
      BY <2>2, <2>3
    <3>2. PICK k \in 1 .. Cardinality(S) : k = Rank(S, i)
      BY <3>1
    <3>3. (CHOOSE j \in S : Rank(S, j) = k) = i
      BY <2>2, <2>3, <2>4, <3>2
    <3>4. PICK q : q = kept(s)
      OBVIOUS
    <3> HIDE DEF kept
    <3>5. q = [l \in 1 .. Cardinality(S) |-> b[CHOOSE j \in S : Rank(S, j) = l]]
      BY <2>5, <3>4
    <3>6. k \in DOMAIN q /\ q[k] = b[i]
      BY <3>3, <3>5
    <3> QED
      BY <3>2, <3>4, <3>6
  <2> QED
    BY <2>3, <2>7, <2>8 DEF b
<1> HIDE DEF kept
\* A place that metadata still names is live, if its segment is there.
<1>3. ASSUME NEW e \in Objects, m[e].on, m[e].place \notin {Nowhere, OwnFile}
      PROVE  \E s \in Segs, i \in Nat : /\ m[e].place = <<s, i>> /\ seg[s].used
                                        /\ seg[s].on => i \in L(s) /\ seg[s].bytes[i] = e
  <2>1. e \notin D /\ m[e] = meta[e] /\ meta[e] \in Meta /\ PlaceOk(e, meta[e].place)
    BY <1>3, <1>m, <1>n, <1>s DEF StoreTypes, PlacesOk
  <2>2. PICK s \in Segs, i \in Nat : meta[e].place = <<s, i>>
    BY <1>3, <2>1 DEF Meta, Place
  <2>3. seg[s].used /\ (seg[s].on => i \in DOMAIN seg[s].bytes /\ seg[s].bytes[i] = e)
    BY <1>3, <2>1, <2>2 DEF PlaceOk
  <2> HIDE DEF m
  <2>4. seg[s].on => i \in L(s)
    BY <1>3, <2>1, <2>2, <2>3
  <2> QED
    BY <2>1, <2>2, <2>3, <2>4
<1>4. \A s \in Segs : ~seg[s].on => L(s) = {}
  BY <1>s DEF SegsOk
\* The segments and the metadata afterwards.
<1>5. ASSUME NEW s \in Segs
      PROVE  /\ seg'[s] \in [on : BOOLEAN, used : BOOLEAN, bytes : Seq(Objects)]
             /\ seg'[s].used = seg[s].used
             /\ IF L(s) = {} THEN seg'[s].on = FALSE /\ seg'[s].bytes = <<>>
                ELSE seg'[s].on = seg[s].on /\ seg'[s].bytes = kept(s)
  <2>1. PICK x \in [on : BOOLEAN, used : BOOLEAN, bytes : Seq(Objects)], k \in Seq(Objects) : x = seg[s] /\ k = kept(s)
    BY <1>2, <1>s DEF StoreTypes
  <2>2. seg'[s] = IF L(s) = {} THEN [x EXCEPT !.on = FALSE, !.bytes = <<>>] ELSE [x EXCEPT !.bytes = k]
    BY <1>1, <2>1
  <2> HIDE DEF L
  <2>3. <<>> \in Seq(Objects)
    OBVIOUS
  <2>4. CASE L(s) = {}
    BY <2>1, <2>2, <2>3, <2>4
  <2>5. CASE L(s) # {}
    BY <2>1, <2>2, <2>5
  <2> QED
    BY <2>4, <2>5
<1>6. ASSUME NEW e \in Objects
      PROVE  \/ meta'[e] = m[e] /\ (m[e].place \in {Nowhere, OwnFile} \/ ~m[e].on)
             \/ \E s \in Segs, i \in Nat, n \in Nat :
                  /\ m[e].on /\ meta'[e] = [m[e] EXCEPT !.place = <<s, n>>] /\ m[e].place = <<s, i>> /\ seg[s].used
                  /\ seg[s].on => /\ i \in L(s) /\ seg[s].bytes[i] = e /\ n = Rank(L(s), i)
  <2>1. CASE m[e].on /\ m[e].place \notin {Nowhere, OwnFile}
    <3>1. PICK s \in Segs, i \in Nat : /\ m[e].place = <<s, i>> /\ seg[s].used
                                       /\ seg[s].on => i \in L(s) /\ seg[s].bytes[i] = e
      BY <2>1, <1>3
    <3>2. PICK x \in Meta : x = m[e]
      BY <1>m
    <3>3. PICK n : n = Rank(L(s), i)
      OBVIOUS
    <3>4. meta'[e] = [x EXCEPT !.place[2] = n]
      <4>1. meta'[e] = [m[e] EXCEPT !.place[2] = Position(L(m[e].place[1]), @)]
        BY <2>1, <1>1
      <4>2. m[e].place[1] = s /\ m[e].place[2] = i
        BY <3>1
      <4> HIDE DEF m, L
      <4> QED
        BY <4>1, <4>2, <3>2, <3>3 DEF Position
    <3>5. n \in Nat
      <4>1. L(s) \in SUBSET (1 .. Len(seg[s].bytes)) /\ Len(seg[s].bytes) \in Nat
        BY <1>s DEF StoreTypes
      <4>2. PICK S \in SUBSET (1 .. Len(seg[s].bytes)) : S = L(s)
        BY <4>1
      <4>3. IsFiniteSet({j \in S : j <= i})
        <5>1. PICK b \in Nat : b = Len(seg[s].bytes)
          BY <4>1
        <5>2. IsFiniteSet(1 .. b)
          BY FS_Interval
        <5>3. {j \in S : j <= i} \in SUBSET (1 .. b)
          BY <5>1
        <5> QED
          BY <5>2, <5>3, FS_Subset
      <4> HIDE DEF L
      <4> QED
        BY <3>3, <4>2, <4>3, FS_CardinalityType DEF Rank
    <3> HIDE DEF m, L
    <3>6. [x EXCEPT !.place[2] = n] = [x EXCEPT !.place = <<s, n>>]
      BY <3>1, <3>2
    <3> QED
      BY <2>1, <3>1, <3>2, <3>3, <3>4, <3>5, <3>6
  <2>2. CASE ~(m[e].on /\ m[e].place \notin {Nowhere, OwnFile})
    <3>1. meta'[e] = m[e]
      BY <2>2, <1>1
    <3> QED
      BY <2>2, <3>1
  <2> QED
    BY <2>1, <2>2
<1> HIDE DEF m, L
<1>e. ASSUME NEW e \in Objects
      PROVE  meta'[e] \in Meta /\ meta'[e].on = m[e].on /\ meta'[e].pins = m[e].pins
  <2>1. PICK x \in Meta : x = m[e]
    BY <1>m
  <2>2. ASSUME NEW s \in Segs, NEW n \in Nat, meta'[e] = [m[e] EXCEPT !.place = <<s, n>>]
        PROVE  meta'[e] \in Meta /\ meta'[e].on = m[e].on /\ meta'[e].pins = m[e].pins
    <3>1. <<s, n>> \in Place
      BY DEF Place
    <3>2. [x EXCEPT !.place = <<s, n>>] \in Meta /\ [x EXCEPT !.place = <<s, n>>].on = x.on
          /\ [x EXCEPT !.place = <<s, n>>].pins = x.pins
      BY <3>1 DEF Meta
    <3>3. meta'[e] = [x EXCEPT !.place = <<s, n>>]
      BY <2>1, <2>2
    <3> QED
      BY <2>1, <3>2, <3>3
  <2>3. CASE meta'[e] = m[e]
    BY <1>m, <2>3
  <2>4. meta'[e] = m[e] \/ \E s \in Segs, n \in Nat : meta'[e] = [m[e] EXCEPT !.place = <<s, n>>]
    <3>1. CASE meta'[e] = m[e]
      BY <3>1
    <3>2. CASE \E s \in Segs, i \in Nat, n \in Nat :
                 /\ m[e].on /\ meta'[e] = [m[e] EXCEPT !.place = <<s, n>>] /\ m[e].place = <<s, i>> /\ seg[s].used
                 /\ seg[s].on => /\ i \in L(s) /\ seg[s].bytes[i] = e /\ n = Rank(L(s), i)
      BY <3>2, Zenon
    <3> QED
      BY <1>6, <3>1, <3>2
  <2> QED
    BY <2>2, <2>3, <2>4
<1>7. StoreTypes'
  <2>1. seg' \in [Segs -> [on : BOOLEAN, used : BOOLEAN, bytes : Seq(Objects)]]
    <3>1. seg' = [s \in Segs |-> seg'[s]]
      BY <1>1
    <3> QED
      BY <3>1, <1>5
  <2>2. meta' \in [Objects -> Meta]
    <3>1. meta' = [o \in Objects |-> meta'[o]]
      BY <1>1
    <3> QED
      BY <3>1, <1>e
  <2>3. AtRest \in [pc : {"rest", "bytes", "meta", "mem", "touch", "open"}, o : Objects \cup {0}, place : Place, old : Meta]
        /\ AtRest.pc = "rest"
    BY <1>n DEF AtRest
  <2> QED
    BY <1>1, <1>n, <2>1, <2>2, <2>3, <1>s DEF StoreTypes
<1>8. SegsOk'
  BY <1>4, <1>5, <1>s DEF SegsOk
<1>9. ASSUME NEW e \in Objects PROVE PlaceOk(e, meta[e].place)'
  <2>1. PICK p : p = meta'[e].place
    OBVIOUS
  <2>2. CASE p \in {Nowhere, OwnFile}
    BY <2>1, <2>2 DEF PlaceOk
  <2>3. CASE p \notin {Nowhere, OwnFile}
    <3>1. ~(~m[e].on /\ meta'[e] = m[e])
      BY <1>m, <1>n, <1>s, <2>1, <2>3 DEF PinsOk
    <3>3. PICK s \in Segs, i \in Nat, n \in Nat :
             /\ m[e].on /\ meta'[e] = [m[e] EXCEPT !.place = <<s, n>>] /\ m[e].place = <<s, i>> /\ seg[s].used
             /\ seg[s].on => /\ i \in L(s) /\ seg[s].bytes[i] = e /\ n = Rank(L(s), i)
      BY <1>6, <2>1, <2>3, <3>1
    <3>4. p = <<s, n>> /\ p[1] = s /\ p[2] = n
      BY <2>1, <3>3, <1>m DEF Meta
    <3>5. seg'[s].on => seg[s].on /\ L(s) # {} /\ seg'[s].bytes = kept(s)
      BY <1>5
    <3>6. seg'[s].used /\ (seg'[s].on => n \in DOMAIN seg'[s].bytes /\ seg'[s].bytes[n] = e)
      <4>1. seg'[s].used
        BY <3>3, <1>5
      <4>2. ASSUME seg'[s].on PROVE n \in DOMAIN seg'[s].bytes /\ seg'[s].bytes[n] = e
        <5>1. i \in L(s) /\ seg[s].bytes[i] = e /\ n = Rank(L(s), i) /\ seg'[s].bytes = kept(s)
          BY <3>3, <3>5, <4>2
        <5>2. Rank(L(s), i) \in DOMAIN kept(s) /\ kept(s)[Rank(L(s), i)] = seg[s].bytes[i]
          BY <5>1, <1>2
        <5> QED
          BY <5>1, <5>2
      <4> QED
        BY <4>1, <4>2
    <3> QED
      BY <2>1, <3>4, <3>6 DEF PlaceOk
  <2> QED
    BY <2>2, <2>3
<1>10. PlacesOk'
  <2>1. \A o : PlaceOk(o, Nowhere)'
    BY DEF PlaceOk
  <2>2. AtRest.place = Nowhere /\ AtRest.old.place = Nowhere
    BY DEF AtRest, NoMeta
  <2>3. \A e \in Objects : mem'[e] = Nowhere
    BY <1>1
  <2>4. \A t \in Threads : io'[t] = AtRest
    BY <1>1
  <2>5. ASSUME NEW e \in Objects PROVE PlaceOk(e, mem[e])'
    BY <2>1, <2>3 DEF PlaceOk
  <2>6. ASSUME NEW t \in Threads
        PROVE  PlaceOk(io[t].o, io[t].place)' /\ PlaceOk(io[t].o, io[t].old.place)'
    BY <2>2, <2>4 DEF PlaceOk
  <2> QED
    BY <2>5, <2>6, <1>9 DEF PlacesOk
<1>11. PinsOk'
  <2>1. ASSUME NEW e \in Objects, meta'[e].on, e \notin torn' PROVE There(e, meta[e].place)'
    <3>1. m[e].on /\ m[e] \in Meta
      BY <2>1, <1>6, <1>m DEF Meta
    <3>2. e \notin D /\ m[e] = meta[e] /\ There(e, meta[e].place)
      BY <2>1, <3>1, <1>1, <1>m, <1>n, <1>s DEF PinsOk
    <3>3. CASE meta'[e] = m[e] /\ m[e].place \in {Nowhere, OwnFile}
      <4>1. meta[e].place = OwnFile /\ e \in own
        BY <3>2, <3>3 DEF There, Nowhere, OwnFile
      <4>2. e \in own' /\ meta'[e].place = OwnFile
        BY <3>2, <3>3, <4>1, <1>1
      <4> QED
        BY <4>2 DEF There, Nowhere, OwnFile
    <3>4. ASSUME NEW s \in Segs, NEW i \in Nat, NEW n \in Nat, meta'[e] = [m[e] EXCEPT !.place = <<s, n>>],
                 m[e].place = <<s, i>>, seg[s].on => i \in L(s)
          PROVE  There(e, meta[e].place)'
      <4>1. m[e].place \notin {Nowhere, OwnFile} /\ m[e].place[1] = s /\ <<s, n>> \notin {Nowhere, OwnFile}
        BY <3>4, SegPlaces
      <4>2. seg[s].on
        BY <3>2, <4>1 DEF There
      <4>3. seg'[s].on
        BY <4>2, <3>4, <1>5
      <4>4. meta'[e].place = <<s, n>>
        BY <3>1, <3>4 DEF Meta
      <4> QED
        BY <4>1, <4>3, <4>4 DEF There
    <3> QED
      BY <3>1, <3>3, <3>4, <1>6
  <2>2. ASSUME NEW q \in held' \ excused' PROVE meta'[objOf[q]].on /\ q \in meta'[objOf[q]].pins
    <3>1. q \in held \ excused /\ objOf[q] \in Objects /\ objOf[q] \notin D
      BY <2>2, <1>1, <1>s DEF StoreTypes
    <3>2. m[objOf[q]].on /\ q \in m[objOf[q]].pins /\ m[objOf[q]] \in Meta
      BY <3>1, <1>m, <1>s DEF PinsOk
    <3> QED
      BY <3>1, <3>2, <1>e
  <2>3. ASSUME NEW e \in Objects, ~meta'[e].on PROVE meta'[e].place = Nowhere
    <3>1. ~m[e].on /\ meta'[e] = m[e]
      BY <2>3, <1>6, <1>m DEF Meta
    <3> QED
      BY <3>1, <1>m, <1>n, <1>s DEF PinsOk
  <2> QED
    BY <2>1, <2>2, <2>3 DEF PinsOk
<1> QED
  BY <1>7, <1>8, <1>10, <1>11 DEF StoreInv

\* A node starts without any object.
LEMMA StoreFirst == ObjInit => StoreInv
<1> SUFFICES ASSUME ObjInit PROVE StoreInv
  OBVIOUS
<1>a. Namings \subseteq [Refs -> Objects]
  BY ObjectStoreAssumption
<1>1. /\ objOf \in Namings /\ meta = [o \in Objects |-> NoMeta] /\ own = {}
      /\ seg = [s \in Segs |-> [on |-> FALSE, used |-> FALSE, bytes |-> <<>>]]
      /\ mem = [o \in Objects |-> Nowhere] /\ cur = [p \in {"node"} \cup Workers |-> 0]
      /\ io = [t \in Threads |-> AtRest] /\ held = {}
  BY DEF ObjInit
<1>2. NoMeta \in Meta /\ Nowhere \in Place /\ ~NoMeta.on /\ NoMeta.place = Nowhere
  BY DEF NoMeta, Meta, Place
<1>3. /\ AtRest \in [pc : {"rest", "bytes", "meta", "mem", "touch", "open"}, o : Objects \cup {0}, place : Place, old : Meta]
      /\ AtRest.pc = "rest" /\ AtRest.place = Nowhere /\ AtRest.old = NoMeta
  BY <1>2 DEF AtRest
<1>4. <<>> \in Seq(Objects)
  OBVIOUS
<1>5. [on |-> FALSE, used |-> FALSE, bytes |-> <<>>] \in [on : BOOLEAN, used : BOOLEAN, bytes : Seq(Objects)]
  BY <1>4
<1>6. StoreTypes
  BY <1>a, <1>1, <1>2, <1>3, <1>5 DEF StoreTypes
<1>7. SegsOk
  BY <1>1 DEF SegsOk
<1>8. PlacesOk
  BY <1>1, <1>2, <1>3 DEF PlacesOk, PlaceOk
<1>9. PinsOk
  BY <1>1, <1>2 DEF PinsOk
<1> QED
  BY <1>6, <1>7, <1>8, <1>9 DEF StoreInv

\* Every step of the node, its workers and gc leaves the invariant as it is.
LEMMA StoreSteps == StoreInv /\ [ObjNext]_objVars => StoreInv'
<1> SUFFICES ASSUME StoreInv, [ObjNext]_objVars PROVE StoreInv'
  OBVIOUS
<1>1. CASE UNCHANGED objVars
  BY <1>1 DEF objVars, StoreInv, StoreTypes, SegsOk, PlacesOk, PinsOk, PlaceOk, There
<1>2. CASE ObjNext
  <2>0. UNCHANGED objOf
    BY <1>2 DEF ObjNext
  <2>1. CASE \/ \E t \in Threads, o \in Objects : Put(t, o) \/ Commit(t, o) \/ Fetch(t, o) \/ Lookup4Read(t, o)
             \/ \E t \in Threads : ReplaceFile(t) \/ StoreMeta(t) \/ Remember(t) \/ Touch(t) \/ SkipTouch(t) \/ Open(t)
    <3>1. StoreTypes' /\ UNCHANGED seg
      BY <2>0, <2>1, StoreTypesStay
    <3>2. PlacesOk' /\ SegsOk'
      BY <2>0, <2>1, <3>1, StorePlacesStay
    <3>3. PinsOk'
      BY <2>0, <2>1, <3>1, StorePinsStay
    <3> QED
      BY <3>1, <3>2, <3>3 DEF StoreInv
  <2>2. CASE \E t \in Threads : Append2Segment(t)
    BY <2>0, <2>2, AppendKeeps
  <2>3. CASE \E r \in Refs : Pin(r) \/ ReleaseRef(r)
    BY <2>0, <2>3, PinKeeps, ReleaseKeeps
  <2>4. CASE \E D \in SUBSET Objects : Gc(D)
    BY <2>0, <2>4, GcKeeps
  <2> QED
    BY <1>2, <2>1, <2>2, <2>3, <2>4 DEF ObjNext
<1> QED
  BY <1>1, <1>2

\* Every place that a metadata file, the node's memory or an operation under way
\* names holds the object's own bytes for as long as its segment is there.
LEMMA StoreInvAlways == ObjSpec => []StoreInv
<1>1. ObjInit => StoreInv
  BY StoreFirst
<1>2. StoreInv /\ [ObjNext]_objVars => StoreInv'
  BY StoreSteps
<1> QED
  BY <1>1, <1>2, PTL DEF ObjSpec

\* A reader that finds the file it looked up reads the object's own bytes, whatever
\* was stored, released, fetched or compacted in between, for any number of threads,
\* objects and segments (_handle_download, _compact_segment_file).
THEOREM ReadsRight == ObjSpec => []ReadRight
<1>1. StoreInv => ReadRight
  <2> SUFFICES ASSUME StoreInv, NEW t \in Threads, io[t].pc = "open", There(io[t].o, io[t].place)
               PROVE  Found(io[t].o, io[t].place) = io[t].o
    BY DEF ReadRight
  <2>1. io[t].place \in Place /\ PlaceOk(io[t].o, io[t].place)
    BY DEF StoreInv, StoreTypes, PlacesOk
  <2>2. CASE io[t].place = OwnFile
    BY <2>2 DEF Found
  <2>3. CASE io[t].place \notin {Nowhere, OwnFile}
    BY <2>1, <2>3 DEF Found, PlaceOk, There
  <2>4. io[t].place # Nowhere
    BY DEF There, Nowhere, OwnFile
  <2> QED
    BY <2>2, <2>3, <2>4
<1> QED
  BY <1>1, StoreInvAlways, PTL

\* A reference that is pinned keeps its object readable until it is released, unless
\* its metadata was written over, or written too late, or gc took it, for any number
\* of references, workers and segments (pin_object, release_object).
THEOREM PinsKeep == ObjSpec => []PinnedKept
<1>1. StoreInv => PinnedKept
  <2> SUFFICES ASSUME StoreInv, NEW r \in held \ excused, objOf[r] \notin torn PROVE Artifact(objOf[r]) # Nowhere
    BY DEF PinnedKept
  <2>1. objOf[r] \in Objects
    BY DEF StoreInv, StoreTypes
  <2>2. meta[objOf[r]].on /\ There(objOf[r], meta[objOf[r]].place)
    BY <2>1 DEF StoreInv, PinsOk
  <2>3. \A p : There(objOf[r], p) => p # Nowhere
    BY DEF There, Nowhere, OwnFile
  <2> QED
    BY <2>2, <2>3 DEF Artifact
<1> QED
  BY <1>1, StoreInvAlways, PTL
=============================================================================
