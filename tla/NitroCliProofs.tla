---------------------------- MODULE NitroCliProofs ----------------------------
(***************************************************************************)
(* Proofs about NitroCli: the image builds, and the names and consoles of  *)
(* the other commands, for any number of processes, images, arguments,     *)
(* commands and enclaves.                                                  *)
(***************************************************************************)
EXTENDS NitroCli, FiniteSetTheorems, SequenceTheorems, WellFoundedInduction, TLAPS

--------------------------------------------------------------------------------
(* Image builds *)

Output == {a.output : a \in BuildArgs}

(* The parts of an image file are of one Docker image.                          *)
Uniform(c) == c.root = c.cmd /\ c.arch = c.cmd /\ c.ident = c.cmd

(* What the proof needs of the variables' types. *)
BuildTypeOK ==
  /\ DOMAIN bargs \subseteq Cli /\ \A p \in DOMAIN bargs : bargs[p].output \in Output
  /\ DOMAIN bpc = Cli /\ DOMAIN loaded = Cli /\ DOMAIN arch = Cli /\ DOMAIN ident = Cli
  /\ DOMAIN eif = Output
  /\ bpc = [p \in Cli |-> bpc[p]] /\ loaded = [p \in Cli |-> loaded[p]]
  /\ arch = [p \in Cli |-> arch[p]] /\ ident = [p \in Cli |-> ident[p]]
  /\ eif = [o \in Output |-> eif[o]]

(* What an undisturbed build has collected so far is of the image the tag names. *)
Collected(p) ==
  /\ Underway(p) => loaded[p] = tag /\ Inspectable
  /\ bpc[p] \in {"arch", "identity", "write"} => ramdisk.root = tag /\ ramdisk.cmd = tag
  /\ bpc[p] \in {"identity", "write"} => arch[p] = tag
  /\ bpc[p] = "write" => ident[p] = tag

(* A file that was written to was written to by a build that will not look at    *)
(* the image again.                                                              *)
Written(o) ==
  eif[o].state # "empty"
    => /\ eif[o].by \in Cli
       /\ bpc[eif[o].by] \in {"flush", "done", "failed"}
       /\ eif[o].state \in {"partial", "whole"} /\ eif[o].by \in apart => Uniform(eif[o])

(* ... and has all the fields of Content.                                        *)
Filled(o) ==
  eif[o].state # "empty"
    => eif[o] = [f \in {"state", "by", "root", "cmd", "arch", "ident"} |-> eif[o][f]]

(* The inductive invariant.                                                      *)
BuildInv ==
  /\ BuildTypeOK
  /\ \A p \in Cli : p \in apart => Collected(p)
  /\ \A o \in Output : Written(o) /\ Filled(o)

(* At the beginning nothing was collected or written.                            *)
LEMMA BuildInvInit == Init => BuildInv
<1> SUFFICES ASSUME Init PROVE BuildInv
  OBVIOUS
<1>1. PICK builders \in Builders : BuildInit(builders, IF builders = {} THEN {NoImage} ELSE Image \cup {NoImage})
  BY DEF Init
<1>2. BuildTypeOK
  BY <1>1, CliAssumption DEF BuildInit, BuildTypeOK, Output
<1>3. \A p \in Cli : Collected(p)
  BY <1>1 DEF BuildInit, Collected, Underway, Inspectable
<1>4. \A o \in Output : Written(o) /\ Filled(o)
  BY <1>1 DEF BuildInit, Written, Filled, Empty, Output
<1> QED
  BY <1>2, <1>3, <1>4 DEF BuildInv

(* A step of a build keeps the invariant.                                        *)
LEMMA BuildStepInv ==
  ASSUME BuildInv, NEW p \in DOMAIN bargs, BuildStep(p)
  PROVE  BuildInv'
<1> USE DEF At
<1>t. BuildTypeOK
  BY DEF BuildInv
<1>c. \A q \in Cli : q \in apart => Collected(q)
  BY DEF BuildInv
<1>w. \A o \in Output : Written(o)
  BY DEF BuildInv
<1>f. \A o \in Output : Filled(o)
  BY DEF BuildInv
<1> p \in Cli
  BY <1>t DEF BuildTypeOK
<1>1. CASE BuildFails(p)
  <2>1. BuildTypeOK'
    BY <1>t, <1>1 DEF BuildTypeOK, BuildFails
  <2>2. \A q \in Cli : q \in apart' => Collected(q)'
    BY <1>t, <1>c, <1>1 DEF BuildTypeOK, BuildFails, Collected, Underway, Inspectable
  <2>3. \A o \in Output : Written(o)'
    BY <1>t, <1>w, <1>1 DEF BuildTypeOK, BuildFails, Written, Uniform
  <2>4. \A o \in Output : Filled(o)'
    BY <1>t, <1>f, <1>1 DEF BuildTypeOK, BuildFails, Filled
  <2> QED
    BY <2>1, <2>2, <2>3, <2>4 DEF BuildInv
<1>2. CASE ParseBuildArgs(p)
  <2>1. BuildTypeOK'
    BY Zenon, <1>t, <1>2 DEF BuildTypeOK, ParseBuildArgs
  <2>2. \A q \in Cli : q \in apart' => Collected(q)'
    BY <1>t, <1>c, <1>2 DEF BuildTypeOK, ParseBuildArgs, Collected, Underway, Inspectable
  <2>3. \A o \in Output : Written(o)'
    BY <1>t, <1>w, <1>2 DEF BuildTypeOK, ParseBuildArgs, Written, Uniform
  <2>4. \A o \in Output : Filled(o)'
    BY <1>t, <1>f, <1>2 DEF BuildTypeOK, ParseBuildArgs, Filled
  <2> QED
    BY <2>1, <2>2, <2>3, <2>4 DEF BuildInv
<1>3. CASE ReadBlobs(p)
  <2>1. BuildTypeOK'
    BY <1>t, <1>3 DEF BuildTypeOK, ReadBlobs
  <2>2. \A q \in Cli : q \in apart' => Collected(q)'
    BY <1>t, <1>c, <1>3 DEF BuildTypeOK, ReadBlobs, Collected, Underway, Inspectable
  <2>3. \A o \in Output : Written(o)'
    BY <1>t, <1>w, <1>3 DEF BuildTypeOK, ReadBlobs, Written, Uniform
  <2>4. \A o \in Output : Filled(o)'
    BY <1>t, <1>f, <1>3 DEF BuildTypeOK, ReadBlobs, Filled
  <2> QED
    BY <2>1, <2>2, <2>3, <2>4 DEF BuildInv
<1>4. CASE OpenOutput(p)
  <2>1. BuildTypeOK'
    BY Zenon, <1>t, <1>4 DEF BuildTypeOK, OpenOutput, Empty
  <2>2. \A q \in Cli : q \in apart' => Collected(q)'
    BY <1>t, <1>c, <1>4 DEF BuildTypeOK, OpenOutput, Collected, Underway, Inspectable, Empty
  <2>3. \A o \in Output : Written(o)'
    BY <1>t, <1>w, <1>4 DEF BuildTypeOK, OpenOutput, Written, Uniform, Empty
  <2>4. \A o \in Output : Filled(o)'
    BY <1>t, <1>f, <1>4 DEF BuildTypeOK, OpenOutput, Filled, Empty
  <2> QED
    BY <2>1, <2>2, <2>3, <2>4 DEF BuildInv
<1>5. CASE NewDocker2Eif(p)
  <2>1. BuildTypeOK'
    BY <1>t, <1>5 DEF BuildTypeOK, NewDocker2Eif
  <2>2. \A q \in Cli : q \in apart' => Collected(q)'
    BY <1>t, <1>c, <1>5 DEF BuildTypeOK, NewDocker2Eif, Collected, Underway, Inspectable
  <2>3. \A o \in Output : Written(o)'
    BY <1>t, <1>w, <1>5 DEF BuildTypeOK, NewDocker2Eif, Written, Uniform
  <2>4. \A o \in Output : Filled(o)'
    BY <1>t, <1>f, <1>5 DEF BuildTypeOK, NewDocker2Eif, Filled
  <2> QED
    BY <2>1, <2>2, <2>3, <2>4 DEF BuildInv
<1>6. CASE BuildDockerImage(p)
  <2>1. BuildTypeOK'
    BY Zenon, <1>t, <1>6 DEF BuildTypeOK, BuildDockerImage, MoveTag
  <2>2. \A q \in Cli : q \in apart' => Collected(q)'
    BY <1>t, <1>c, <1>6 DEF BuildTypeOK, BuildDockerImage, Collected, Underway, Inspectable, MoveTag
  <2>3. \A o \in Output : Written(o)'
    BY <1>t, <1>w, <1>6 DEF BuildTypeOK, BuildDockerImage, Written, Uniform, MoveTag
  <2>4. \A o \in Output : Filled(o)'
    BY <1>t, <1>f, <1>6 DEF BuildTypeOK, BuildDockerImage, Filled
  <2> QED
    BY <2>1, <2>2, <2>3, <2>4 DEF BuildInv
<1>7. CASE PullDockerImage(p)
  <2>1. BuildTypeOK'
    BY <1>t, <1>7 DEF BuildTypeOK, PullDockerImage, MoveTag, Inspectable
  <2>2. \A q \in Cli : q \in apart' => Collected(q)'
    BY <1>t, <1>c, <1>7 DEF BuildTypeOK, PullDockerImage, Collected, Underway, Inspectable, MoveTag
  <2>3. \A o \in Output : Written(o)'
    BY <1>t, <1>w, <1>7 DEF BuildTypeOK, PullDockerImage, Written, Uniform, MoveTag
  <2>4. \A o \in Output : Filled(o)'
    BY <1>t, <1>f, <1>7 DEF BuildTypeOK, PullDockerImage, Filled
  <2> QED
    BY <2>1, <2>2, <2>3, <2>4 DEF BuildInv
<1>8. CASE LoadImageConfig(p)
  <2>1. BuildTypeOK'
    BY Zenon, <1>t, <1>8 DEF BuildTypeOK, LoadImageConfig, Inspectable
  <2>2. \A q \in Cli : q \in apart' => Collected(q)'
    BY <1>t, <1>c, <1>8 DEF BuildTypeOK, LoadImageConfig, Collected, Underway, Inspectable
  <2>3. \A o \in Output : Written(o)'
    BY <1>t, <1>w, <1>8 DEF BuildTypeOK, LoadImageConfig, Written, Uniform
  <2>4. \A o \in Output : Filled(o)'
    BY <1>t, <1>f, <1>8 DEF BuildTypeOK, LoadImageConfig, Filled
  <2> QED
    BY <2>1, <2>2, <2>3, <2>4 DEF BuildInv
<1>9. CASE BootstrapRamfs(p)
  <2>1. BuildTypeOK'
    BY <1>t, <1>9 DEF BuildTypeOK, BootstrapRamfs
  <2>2. \A q \in Cli : q \in apart' => Collected(q)'
    BY <1>t, <1>c, <1>9 DEF BuildTypeOK, BootstrapRamfs, Collected, Underway, Inspectable
  <2>3. \A o \in Output : Written(o)'
    BY <1>t, <1>w, <1>9 DEF BuildTypeOK, BootstrapRamfs, Written, Uniform
  <2>4. \A o \in Output : Filled(o)'
    BY <1>t, <1>f, <1>9 DEF BuildTypeOK, BootstrapRamfs, Filled
  <2> QED
    BY <2>1, <2>2, <2>3, <2>4 DEF BuildInv
<1>10. CASE CustomerRamfs(p)
  <2>1. BuildTypeOK'
    BY Zenon, <1>t, <1>10 DEF BuildTypeOK, CustomerRamfs, CustomerYaml, Inspectable
  <2>2. \A q \in Cli : q \in apart' => Collected(q)'
    BY <1>t, <1>c, <1>10 DEF BuildTypeOK, CustomerRamfs, Collected, Underway, Inspectable, CustomerYaml
  <2>3. \A o \in Output : Written(o)'
    BY <1>t, <1>w, <1>10 DEF BuildTypeOK, CustomerRamfs, Written, Uniform
  <2>4. \A o \in Output : Filled(o)'
    BY <1>t, <1>f, <1>10 DEF BuildTypeOK, CustomerRamfs, Filled
  <2> QED
    BY <2>1, <2>2, <2>3, <2>4 DEF BuildInv
<1>11. CASE Architecture(p)
  <2>1. BuildTypeOK'
    BY Zenon, <1>t, <1>11 DEF BuildTypeOK, Architecture, Inspectable
  <2>2. \A q \in Cli : q \in apart' => Collected(q)'
    BY <1>t, <1>c, <1>11 DEF BuildTypeOK, Architecture, Collected, Underway, Inspectable
  <2>3. \A o \in Output : Written(o)'
    BY <1>t, <1>w, <1>11 DEF BuildTypeOK, Architecture, Written, Uniform
  <2>4. \A o \in Output : Filled(o)'
    BY <1>t, <1>f, <1>11 DEF BuildTypeOK, Architecture, Filled
  <2> QED
    BY <2>1, <2>2, <2>3, <2>4 DEF BuildInv
<1>12. CASE GenerateIdentityInfo(p)
  <2>1. BuildTypeOK'
    BY Zenon, <1>t, <1>12 DEF BuildTypeOK, GenerateIdentityInfo, Inspectable
  <2>2. \A q \in Cli : q \in apart' => Collected(q)'
    BY <1>t, <1>c, <1>12 DEF BuildTypeOK, GenerateIdentityInfo, Collected, Underway, Inspectable
  <2>3. \A o \in Output : Written(o)'
    BY <1>t, <1>w, <1>12 DEF BuildTypeOK, GenerateIdentityInfo, Written, Uniform
  <2>4. \A o \in Output : Filled(o)'
    BY <1>t, <1>f, <1>12 DEF BuildTypeOK, GenerateIdentityInfo, Filled
  <2> QED
    BY <2>1, <2>2, <2>3, <2>4 DEF BuildInv
<1>13. CASE BeginWrite(p)
  <2>1. BuildTypeOK'
    BY Zenon, <1>t, <1>13 DEF BuildTypeOK, BeginWrite, Content, Empty
  <2>2. \A q \in Cli : q \in apart' => Collected(q)'
    BY <1>t, <1>c, <1>13 DEF BuildTypeOK, BeginWrite, Collected, Underway, Inspectable, Content, Empty
  <2>3. ASSUME NEW o \in Output PROVE Written(o)'
    <3>1. CASE o # bargs[p].output
      <4>1. eif'[o] = eif[o]
        BY <1>t, <1>w, <1>13, <3>1 DEF BuildTypeOK, BeginWrite
      <4>2. apart' = apart /\ bpc[p] = "write" /\ \A q \in Cli : q # p => bpc'[q] = bpc[q]
        BY <1>t, <1>13 DEF BuildTypeOK, BeginWrite
      <4> QED
        BY <1>w, <4>1, <4>2 DEF Written, Uniform
    <3>2. CASE o = bargs[p].output
      <4>1. PICK st \in {"partial", "mixed"} : eif'[o] = Content(p, st)
        BY <1>t, <1>w, <1>13, <3>2 DEF BuildTypeOK, BeginWrite
      <4>2. p \in apart => Uniform(Content(p, st))
        BY <1>t, <1>c, <1>13 DEF BuildTypeOK, BeginWrite, Collected, Uniform, Content
      <4>3. eif'[o].by = p /\ bpc'[p] = "flush" /\ apart' = apart
        BY <1>t, <1>w, <1>13, <4>1 DEF BuildTypeOK, BeginWrite, Content
      <4> QED
        BY <1>t, <1>w, <4>1, <4>2, <4>3 DEF BuildTypeOK, Written, Uniform
    <3> QED
      BY <3>1, <3>2
  <2>4. \A o \in Output : Filled(o)'
    BY <1>t, <1>f, <1>13 DEF BuildTypeOK, BeginWrite, Filled, Content
  <2> QED
    BY <2>1, <2>2, <2>3, <2>4 DEF BuildInv
<1>14. CASE EndWrite(p)
  <2>1. BuildTypeOK'
    BY Zenon, <1>t, <1>14 DEF BuildTypeOK, EndWrite, Content
  <2>2. \A q \in Cli : q \in apart' => Collected(q)'
    BY <1>t, <1>c, <1>14 DEF BuildTypeOK, EndWrite, Collected, Underway, Inspectable, Content
  <2>3. ASSUME NEW o \in Output PROVE Written(o)'
    <3>1. CASE o # bargs[p].output
      <4>1. eif'[o] = eif[o]
        BY <1>t, <1>w, <1>14, <3>1 DEF BuildTypeOK, EndWrite
      <4>2. apart' = apart /\ bpc' = [bpc EXCEPT ![p] = "done"]
        BY <1>t, <1>w, <1>14 DEF BuildTypeOK, EndWrite
      <4> QED
        BY <1>t, <1>w, <4>1, <4>2 DEF BuildTypeOK, Written, Uniform
    <3>2. CASE o = bargs[p].output /\ ~(eif[o].state = "partial" /\ eif[o].by = p)
      <4>1. eif'[o] = Content(p, "mixed")
        BY <1>t, <1>w, <1>14, <3>2 DEF BuildTypeOK, EndWrite
      <4>2. eif'[o].by = p /\ eif'[o].state = "mixed" /\ bpc'[p] = "done"
        BY <1>t, <1>w, <1>14, <4>1 DEF BuildTypeOK, EndWrite, Content
      <4> QED
        BY <4>2 DEF Written
    <3>3. CASE o = bargs[p].output /\ eif[o].state = "partial" /\ eif[o].by = p
      <4>1. eif'[o] = [eif[o] EXCEPT !.state = "whole"]
        BY <1>t, <1>w, <1>14, <3>3 DEF BuildTypeOK, EndWrite
      <4>2. /\ eif'[o].by = p /\ eif'[o].root = eif[o].root /\ eif'[o].cmd = eif[o].cmd
            /\ eif'[o].arch = eif[o].arch /\ eif'[o].ident = eif[o].ident
        BY <1>f, <3>3, <4>1 DEF Filled
      <4>3. p \in apart => Uniform(eif[o])
        BY <1>w, <3>3 DEF Written
      <4>4. bpc'[p] = "done" /\ apart' = apart
        BY <1>t, <1>w, <1>14 DEF BuildTypeOK, EndWrite
      <4> QED
        BY <1>t, <1>w, <4>2, <4>3, <4>4 DEF BuildTypeOK, Written, Uniform
    <3> QED
      BY <3>1, <3>2, <3>3
  <2>4. ASSUME NEW o \in Output PROVE Filled(o)'
    <3>1. CASE eif'[o] = eif[o]
      BY <1>f, <3>1 DEF Filled
    <3>2. CASE eif'[o] = Content(p, "mixed")
      BY <3>2 DEF Filled, Content
    <3>3. CASE eif[o].state = "partial" /\ eif'[o] = [eif[o] EXCEPT !.state = "whole"]
      BY Zenon, <1>f, <3>3 DEF Filled
    <3>4. CASE o # bargs[p].output
      <4>1. eif'[o] = eif[o]
        BY <1>t, <1>14, <3>4 DEF BuildTypeOK, EndWrite
      <4> QED
        BY <3>1, <4>1
    <3>5. CASE o = bargs[p].output
      <4>1. eif'[o] = IF eif[o].state = "partial" /\ eif[o].by = p
                      THEN [eif[o] EXCEPT !.state = "whole"] ELSE Content(p, "mixed")
        BY Zenon, <1>t, <1>14, <3>5 DEF BuildTypeOK, EndWrite
      <4> QED
        BY Zenon, <3>2, <3>3, <4>1
    <3> QED
      BY <3>4, <3>5
  <2> QED
    BY <2>1, <2>2, <2>3, <2>4 DEF BuildInv
<1> QED
  BY Zenon, <1>1, <1>2, <1>3, <1>4, <1>5, <1>6, <1>7, <1>8, <1>9, <1>10, <1>11, <1>12, <1>13, <1>14 DEF BuildStep

(* Nobody disturbs a build without its being counted as disturbed.               *)
LEMMA RetagInv ==
  ASSUME BuildInv, Retag
  PROVE  BuildInv'
<1>1. BuildTypeOK'
  BY DEF BuildInv, BuildTypeOK, Retag
<1>2. \A q \in Cli : q \in apart' => Collected(q)'
  BY DEF BuildInv, Retag, Collected, Underway, Inspectable
<1>3. \A o \in Output : Written(o)' /\ Filled(o)'
  BY ZenonT(30) DEF BuildInv, Retag, Written, Filled, Uniform
<1> QED
  BY <1>1, <1>2, <1>3 DEF BuildInv, Output

(* The other commands leave builds alone.                                        *)
LEMMA BuildUnchangedInv ==
  ASSUME BuildInv, UNCHANGED buildVars
  PROVE  BuildInv'
BY Zenon DEF BuildInv, BuildTypeOK, Collected, Underway, Inspectable, Written, Filled, Uniform, buildVars, Output

(* However many builds run at once, fail or are disturbed by changes of the tag,  *)
(* a file written whole by a build that was not disturbed holds one Docker image. *)
THEOREM FilesHoldOneImage == Spec => []OneImagePerFile
<1>1. Init => BuildInv
  BY BuildInvInit
<1>2. BuildInv /\ [Next]_vars => BuildInv'
  <2> SUFFICES ASSUME BuildInv, [Next]_vars PROVE BuildInv'
    OBVIOUS
  <2>1. CASE \E p \in DOMAIN bargs : BuildStep(p)
    BY <2>1, BuildStepInv
  <2>2. CASE Retag
    BY <2>2, RetagInv
  <2>3. CASE UNCHANGED buildVars
    BY <2>3, BuildUnchangedInv
  <2> QED
    BY <2>1, <2>2, <2>3 DEF Next, World, Rest, vars
<1>3. BuildInv => OneImagePerFile
  BY Zenon DEF BuildInv, BuildTypeOK, Written, Uniform, OneImagePerFile
<1> QED
  BY <1>1, <1>2, <1>3, PTL DEF Spec

--------------------------------------------------------------------------------
(* Names *)

(* A non-empty set of numbers has a least one.                                  *)
LEMMA MinIsMember ==
  ASSUME NEW S \in SUBSET Nat, S # {}
  PROVE  Min(S) \in S
<1> DEFINE R == {ss \in Nat \X Nat : ss[1] < ss[2]}
<1>1. IsWellFoundedOn(R, Nat)
  BY NatLessThanWellFounded, Zenon DEF OpToRel
<1> HIDE DEF R
<1>2. PICK x \in S : \A y \in S : ~(<<y, x>> \in R)
  BY Zenon, <1>1, WFMin
<1>3. \A y \in S : x =< y
  <2> SUFFICES ASSUME NEW y \in S PROVE ~(y < x)
    OBVIOUS
  <2> DEFINE ss == <<y, x>>
  <2>1. ss \in Nat \X Nat /\ ss[1] = y /\ ss[2] = x
    OBVIOUS
  <2>2. ~(ss \in R)
    BY <1>2
  <2> QED
    BY <2>1, <2>2 DEF R
<1> QED
  BY Zenon, <1>3 DEF Min

(* The loop of new_enclave_name finds a name that none of the given ones is:    *)
(* of one more candidate than there are names one is free.                      *)
LEMMA FirstFreeIsFree ==
  ASSUME NEW name \in Name, NEW names, IsFiniteSet(names)
  PROVE  FirstFree(name, names) \in Name /\ FirstFree(name, names) \notin names
<1> DEFINE n == Cardinality(names)
           Free == {i \in 1..n + 1 : Append(name, i) \notin names}
<1>1. n \in Nat
  BY FS_CardinalityType
<1>2. Free # {}
  <2> SUFFICES ASSUME Free = {} PROVE FALSE
    OBVIOUS
  <2> DEFINE C == 1..n + 1
             f == [i \in C |-> Append(name, i)]
  <2>1. f \in [C -> names]
    OBVIOUS
  <2>2. IsFiniteSet(C) /\ n < Cardinality(C)
    BY <1>1, FS_Interval
  <2>3. \A x, y \in C : f[x] = f[y] => x = y
    BY <1>1, AppendInjective DEF Name
  <2> HIDE DEF C, f
  <2>4. \E x, y \in C : x # y /\ f[x] = f[y]
    BY <2>1, <2>2, FS_PigeonHole
  <2> QED
    BY <2>3, <2>4
<1>3. Free \in SUBSET Nat
  BY <1>1
<1>4. Min(Free) \in Free
  BY <1>2, <1>3, MinIsMember
<1>5. CASE name \in names
  BY <1>1, <1>4, <1>5 DEF FirstFree, Name
<1>6. CASE name \notin names
  BY <1>6 DEF FirstFree
<1> QED
  BY <1>5, <1>6

--------------------------------------------------------------------------------
(* The inductive invariant *)

EnclaveRecord ==
  [up : BOOLEAN, name : Name, cid : Nat, debug : BOOLEAN, out : Nat, known : SUBSET Nat]

ConField == {"on", "pipe", "from", "printed", "cut", "expired"}

(* What the proofs need of the variables' types.                                *)
CliTypeOK ==
  /\ enc \in Seq(EnclaveRecord)
  /\ DOMAIN cmd \subseteq Process /\ \A p \in DOMAIN cmd : cmd[p] \in Commands
  /\ cpc = [p \in Process |-> cpc[p]]
  /\ own \in [Process -> [heard : SUBSET Nat, name : Name, slot : Nat, cid : Nat]]
  /\ con = [p \in Process |-> con[p]]
  /\ \A p \in Process : con[p] = [f \in ConField |-> con[p][f]]

(* What a process knows: the name it chose is none of those it heard of, the    *)
(* enclave it is about exists, the CID it was told is that enclave's, and the   *)
(* console it reads is that enclave's as long as the enclave is up.             *)
Knows(p) ==
  /\ own[p].heard \subseteq DOMAIN enc
  /\ cpc[p] = "send" => \A e \in own[p].heard : enc[e].name # own[p].name
  /\ cpc[p] \in {"terminate", "cid", "flags", "connect", "read"} => own[p].slot \in DOMAIN enc
  /\ cpc[p] \in {"flags", "connect"} => own[p].cid = enc[own[p].slot].cid
  /\ cpc[p] = "connect" => enc[own[p].slot].debug
  /\ cpc[p] = "read" /\ enc[own[p].slot].up => con[p].on = own[p].slot

CidsDiffer == \A a, b \in Up : enc[a].cid = enc[b].cid => a = b

CliInv ==
  /\ CliTypeOK
  /\ \A p \in Process : Knows(p)
  /\ CidsDiffer
  /\ SameNameMeansRace

(* What happens to the enclaves in a step: none disappears, none comes up again, *)
(* and what is known of one stays true.                                          *)
Ages ==
  /\ enc' \in Seq(EnclaveRecord) /\ DOMAIN enc \subseteq DOMAIN enc'
  /\ \A e \in DOMAIN enc :
       /\ enc'[e].name = enc[e].name /\ enc'[e].cid = enc[e].cid /\ enc'[e].debug = enc[e].debug
       /\ enc'[e].known = enc[e].known
       /\ enc'[e].up => enc[e].up

(* A process keeps what it knows while others act.                               *)
LEMMA KnowsKept ==
  ASSUME CliInv, Ages, NEW q \in Process,
         cpc'[q] = cpc[q], own'[q] = own[q], con'[q].on = con[q].on
  PROVE  Knows(q)'
BY DEF CliInv, Ages, Knows

(* Names and CIDs stay apart while no enclave is added.                          *)
LEMMA PairsKept ==
  ASSUME CliInv, Ages, DOMAIN enc' = DOMAIN enc
  PROVE  CidsDiffer' /\ SameNameMeansRace'
<1>1. Up' \subseteq Up
  BY DEF Ages, Up
<1>2. \A e \in Up : e \in DOMAIN enc
  BY DEF Up
<1> QED
  BY <1>1, <1>2 DEF CliInv, Ages, CidsDiffer, SameNameMeansRace

(* The enclaves that are up at the beginning have CIDs of their own.             *)
LEMMA CliInvInit == Init => CliInv
<1> SUFFICES ASSUME Init PROVE CliInv
  OBVIOUS
<1>1. PICK builders \in Builders : CliInit(Cli \ builders, IF builders = Cli THEN {<<>>} ELSE Running)
  BY Zenon DEF Init
<1>2. /\ enc \in Seq(EnclaveRecord)
      /\ \A a, b \in DOMAIN enc : enc[a].cid = enc[b].cid => a = b
      /\ \A e \in DOMAIN enc : enc[e].known = {}
  <2>1. CASE enc = <<>>
    BY <2>1
  <2>2. CASE enc \in Running
    <3> DEFINE Fresh == [up : BOOLEAN, name : Name, cid : Nat, debug : BOOLEAN, out : Nat, known : {{}}]
    <3>1. enc \in Seq(Fresh)
      BY Zenon, <2>2, RunningAssumption
    <3>2. Fresh \subseteq EnclaveRecord
      BY DEF EnclaveRecord
    <3>3. \A r \in Fresh : r.known = {}
      OBVIOUS
    <3> HIDE DEF Fresh
    <3>4. \A e \in DOMAIN enc : enc[e].known = {}
      BY <3>1, <3>3
    <3>5. enc \in Seq(EnclaveRecord)
      BY <3>1, <3>2
    <3> QED
      BY <2>2, <3>4, <3>5, RunningAssumption
  <2> QED
    BY <1>1, <2>1, <2>2 DEF CliInit
<1>3. CliTypeOK
  <2>1. cpc = [p \in Process |-> cpc[p]] /\ DOMAIN cmd \subseteq Process
    BY <1>1, CliAssumption DEF CliInit
  <2>2. \A p \in DOMAIN cmd : cmd[p] \in Commands
    BY <1>1 DEF CliInit
  <2>3. own \in [Process -> [heard : SUBSET Nat, name : Name, slot : Nat, cid : Nat]]
    BY <1>1, NameAssumption DEF CliInit, NoOwn
  <2>4. con = [p \in Process |-> con[p]] /\ \A p \in Process : con[p] = [f \in ConField |-> con[p][f]]
    BY <1>1 DEF CliInit, NoCon, ConField
  <2> QED
    BY <1>2, <2>1, <2>2, <2>3, <2>4 DEF CliTypeOK
<1>4. \A p \in Process : Knows(p)
  <2>1. \A p \in Process : own[p].heard = {} /\ cpc[p] \in {"idle", "spawn", "find"}
    BY <1>1, CliAssumption DEF CliInit, NoOwn
  <2> QED
    BY <2>1 DEF Knows
<1>5. CidsDiffer /\ SameNameMeansRace
  BY <1>2 DEF CidsDiffer, SameNameMeansRace, Up
<1> QED
  BY <1>3, <1>4, <1>5 DEF CliInv

--------------------------------------------------------------------------------
(* The steps *)

(* A process that ends the command forgets what it knew.                         *)
LEMMA ExitInv ==
  ASSUME CliInv, NEW p \in Process, NEW src, Ages, DOMAIN enc' = DOMAIN enc,
         NEW dst \in {"failed", "done", "timed_out"}, Exit(p, src, dst)
  PROVE  CliInv'
<1>1. CliTypeOK'
  BY Zenon, NameAssumption DEF CliInv, CliTypeOK, Ages, Exit, Move, NoOwn, NoCon, ConField
<1>2. Knows(p)'
  <2>1. cpc'[p] = dst /\ own'[p].heard = {}
    BY DEF CliInv, CliTypeOK, Exit, Move, NoOwn
  <2> QED
    BY <2>1 DEF Knows
<1>3. ASSUME NEW q \in Process, q # p PROVE Knows(q)'
  <2>1. cpc'[q] = cpc[q] /\ own'[q] = own[q] /\ con'[q] = con[q]
    BY <1>3 DEF CliInv, CliTypeOK, Exit, Move
  <2> QED
    BY <2>1, KnowsKept
<1> QED
  BY <1>1, <1>2, <1>3, PairsKept DEF CliInv

(* A process that goes on, with the enclaves as they are.                        *)
LEMMA MoveInv ==
  ASSUME CliInv, NEW p \in Process, NEW src, NEW dst, Move(p, src, dst), UNCHANGED enc,
         CliTypeOK', Knows(p)',
         \A q \in Process \ {p} : own'[q] = own[q] /\ con'[q] = con[q]
  PROVE  CliInv'
<1>1. Ages
  BY DEF CliInv, CliTypeOK, Ages
<1>2. ASSUME NEW q \in Process, q # p PROVE Knows(q)'
  <2>1. cpc'[q] = cpc[q]
    BY <1>2 DEF CliInv, CliTypeOK, Move
  <2> QED
    BY <1>1, <1>2, <2>1, KnowsKept
<1> QED
  BY <1>1, <1>2, PairsKept DEF CliInv

(* Steps that leave the enclaves alone.                                          *)
LEMMA QuietStepInv ==
  ASSUME CliInv, NEW p \in DOMAIN cmd, UNCHANGED enc,
         \/ CommandFails(p) \/ SpawnProcess(p) \/ GetAllEnclaveNames(p) \/ NewEnclaveName(p)
         \/ ParseEnclaveId(p) \/ GetIdByName(p) \/ ProcessGone(p) \/ EnclaveProcGetCid(p)
         \/ EnclaveProcGetFlags(p) \/ TimerEvent(p)
  PROVE  CliInv'
<1> p \in Process /\ Ages /\ DOMAIN enc' = DOMAIN enc
  BY DEF CliInv, CliTypeOK, Ages
<1>1. CASE CommandFails(p) \/ ProcessGone(p) \/ TimerEvent(p)
  BY <1>1, ExitInv DEF CommandFails, ProcessGone, TimerEvent
<1>2. CASE SpawnProcess(p)
  <2>1. CliTypeOK'
    BY Zenon, <1>2 DEF CliInv, CliTypeOK, SpawnProcess, Move
  <2>2. Knows(p)'
    BY <1>2 DEF CliInv, CliTypeOK, SpawnProcess, Move, Knows
  <2> QED
    BY <1>2, <2>1, <2>2, MoveInv DEF SpawnProcess
<1>3. CASE GetAllEnclaveNames(p)
  <2>1. PICK answers \in SUBSET Up : own' = [own EXCEPT ![p].heard = answers]
    BY Zenon, <1>3 DEF GetAllEnclaveNames
  <2>2. answers \subseteq DOMAIN enc /\ answers \subseteq Nat
    BY DEF Up, CliInv, CliTypeOK
  <2>3. own'[p].heard = answers /\ cpc'[p] = "name"
    BY <1>3, <2>1 DEF CliInv, CliTypeOK, GetAllEnclaveNames, Move
  <2>4. CliTypeOK'
    <3>1. own' \in [Process -> [heard : SUBSET Nat, name : Name, slot : Nat, cid : Nat]]
      BY Zenon, <2>1, <2>2 DEF CliInv, CliTypeOK
    <3>2. cpc' = [cpc EXCEPT ![p] = "name"] /\ UNCHANGED <<cmd, con, enc>>
      BY Zenon, <1>3 DEF GetAllEnclaveNames, Move
    <3>3. cpc' = [q \in Process |-> cpc'[q]]
      BY Zenon, <3>2 DEF CliInv, CliTypeOK
    <3> QED
      BY <3>1, <3>2, <3>3 DEF CliInv, CliTypeOK
  <2>5. Knows(p)'
    BY Zenon, <2>2, <2>3 DEF Knows
  <2>6. \A q \in Process \ {p} : own'[q] = own[q] /\ con'[q] = con[q]
    BY <1>3, <2>1 DEF CliInv, CliTypeOK, GetAllEnclaveNames
  <2> QED
    BY <1>3, <2>4, <2>5, <2>6, MoveInv DEF GetAllEnclaveNames
<1>4. CASE NewEnclaveName(p)
  <2> DEFINE wanted == IF cmd[p].name = NoName THEN Stem ELSE cmd[p].name
             heard == own[p].heard
             names == {enc[e].name : e \in heard}
             chosen == FirstFree(wanted, names)
  <2>1. wanted \in Name
    BY NameAssumption, CommandAssumption DEF CliInv, CliTypeOK
  <2>2. heard \subseteq DOMAIN enc
    BY DEF CliInv, Knows
  <2>3. IsFiniteSet(heard)
    <3>1. Len(enc) \in Nat /\ DOMAIN enc = 1..Len(enc)
      BY DEF CliInv, CliTypeOK
    <3>2. IsFiniteSet(1..Len(enc))
      BY <3>1, FS_Interval
    <3> QED
      BY <2>2, <3>1, <3>2, FS_Subset
  <2>4. IsFiniteSet(names)
    <3> DEFINE f == [e \in heard |-> enc[e].name]
    <3>1. f \in Surjection(heard, names)
      BY DEF Surjection
    <3> HIDE DEF f, names, heard
    <3> QED
      BY <2>3, <3>1, FS_Surjection
  <2>5. chosen \in Name /\ chosen \notin names
    <3> HIDE DEF wanted, names
    <3> QED
      BY <2>1, <2>4, FirstFreeIsFree
  <2>6. own' = [own EXCEPT ![p].name = chosen] /\ Move(p, "name", "send") /\ UNCHANGED con
    BY <1>4 DEF NewEnclaveName
  <2> HIDE DEF chosen
  <2>7. own'[p].name = chosen /\ own'[p].heard = heard /\ cpc'[p] = "send"
    BY <2>6 DEF CliInv, CliTypeOK, Move
  <2>8. CliTypeOK'
    BY Zenon, <2>5, <2>6 DEF CliInv, CliTypeOK, Move
  <2>9. Knows(p)'
    BY <2>2, <2>5, <2>7 DEF Knows
  <2>10. \A q \in Process \ {p} : own'[q] = own[q] /\ con'[q] = con[q]
    BY <2>6 DEF CliInv, CliTypeOK
  <2> QED
    BY <2>6, <2>8, <2>9, <2>10, MoveInv
<1>5. CASE ParseEnclaveId(p) \/ GetIdByName(p)
  <2>1. ASSUME NEW e \in DOMAIN enc, own' = [own EXCEPT ![p].slot = e], UNCHANGED con,
               Move(p, "find", Found(cmd[p]))
        PROVE  CliInv'
    <3>1. Found(cmd[p]) \in {"cid", "terminate"} /\ e \in Nat
      BY DEF Found, CliInv, CliTypeOK
    <3>2. own'[p].slot = e /\ own'[p].heard = own[p].heard /\ cpc'[p] \in {"cid", "terminate"}
      BY <2>1, <3>1 DEF CliInv, CliTypeOK, Move
    <3>3. CliTypeOK'
      BY Zenon, <2>1, <3>1 DEF CliInv, CliTypeOK, Move
    <3>4. Knows(p)'
      BY Zenon, <3>2 DEF CliInv, Knows
    <3>5. \A q \in Process \ {p} : own'[q] = own[q] /\ con'[q] = con[q]
      BY <2>1 DEF CliInv, CliTypeOK
    <3> QED
      BY <2>1, <3>3, <3>4, <3>5, MoveInv
  <2>2. CASE Exit(p, "find", "failed")
    BY <2>2, ExitInv
  <2> QED
    BY <1>5, <2>1, <2>2 DEF ParseEnclaveId, GetIdByName, Up
<1>6. CASE EnclaveProcGetCid(p)
  <2> DEFINE slot == own[p].slot
  <2>1. slot \in DOMAIN enc /\ enc[slot].cid \in Nat
    <3>1. slot \in DOMAIN enc
      BY <1>6 DEF EnclaveProcGetCid, Up
    <3>2. enc[slot] \in EnclaveRecord
      BY <3>1 DEF CliInv, CliTypeOK
    <3> QED
      BY Zenon, <3>1, <3>2 DEF EnclaveRecord
  <2>2. own'[p] = [own[p] EXCEPT !.cid = enc[slot].cid] /\ cpc'[p] = "flags"
    BY <1>6 DEF CliInv, CliTypeOK, EnclaveProcGetCid, Move
  <2>3. CliTypeOK'
    BY Zenon, <1>6, <2>1 DEF CliInv, CliTypeOK, EnclaveProcGetCid, Move
  <2>4. Knows(p)'
    <3>1. own'[p].cid = enc[slot].cid /\ own'[p].slot = slot /\ own'[p].heard = own[p].heard
      BY <2>2 DEF CliInv, CliTypeOK
    <3> QED
      BY <2>1, <2>2, <3>1 DEF CliInv, Knows
  <2>5. \A q \in Process \ {p} : own'[q] = own[q] /\ con'[q] = con[q]
    BY <1>6 DEF CliInv, CliTypeOK, EnclaveProcGetCid
  <2> QED
    BY <1>6, <2>3, <2>4, <2>5, MoveInv DEF EnclaveProcGetCid
<1>7. CASE EnclaveProcGetFlags(p)
  <2>1. CASE Exit(p, "flags", "failed")
    BY <2>1, ExitInv
  <2>2. CASE Move(p, "flags", "connect") /\ enc[own[p].slot].debug /\ UNCHANGED <<own, con>>
    <3>1. cpc[p] = "flags" /\ cpc'[p] = "connect"
      BY <2>2 DEF CliInv, CliTypeOK, Move
    <3>2. CliTypeOK'
      BY Zenon, <2>2 DEF CliInv, CliTypeOK, Move
    <3>3. Knows(p)'
      BY Zenon, <2>2, <3>1 DEF CliInv, Knows
    <3> QED
      BY <2>2, <3>2, <3>3, MoveInv
  <2> QED
    BY Zenon, <1>7, <2>1, <2>2 DEF EnclaveProcGetFlags
<1> QED
  BY <1>1, <1>2, <1>3, <1>4, <1>5, <1>6, <1>7

(* An enclave that ends or prints is still the same enclave.                     *)
LEMMA ChangeAges ==
  ASSUME CliTypeOK, NEW e \in DOMAIN enc, NEW r \in EnclaveRecord, enc' = [enc EXCEPT ![e] = r],
         r.name = enc[e].name, r.cid = enc[e].cid, r.debug = enc[e].debug, r.known = enc[e].known,
         r.up => enc[e].up
  PROVE  Ages /\ DOMAIN enc' = DOMAIN enc
<1>1. enc \in Seq(EnclaveRecord)
  BY DEF CliTypeOK
<1>2. enc' \in Seq(EnclaveRecord) /\ DOMAIN enc' = DOMAIN enc
  BY <1>1, ExceptSeq
<1>3. \A d \in DOMAIN enc : enc'[d] = IF d = e THEN r ELSE enc[d]
  OBVIOUS
<1> QED
  BY <1>2, <1>3 DEF Ages

(* EnclaveEnds, Terminate.                                                       *)
LEMMA EndsAges ==
  ASSUME CliTypeOK, NEW e \in DOMAIN enc, enc' = [enc EXCEPT ![e].up = FALSE]
  PROVE  Ages /\ DOMAIN enc' = DOMAIN enc
<1> DEFINE r == [enc[e] EXCEPT !.up = FALSE]
<1>1. enc[e] \in EnclaveRecord
  BY DEF CliTypeOK
<1>2. r \in EnclaveRecord /\ r.up = FALSE /\ r.name = enc[e].name /\ r.cid = enc[e].cid
      /\ r.debug = enc[e].debug /\ r.known = enc[e].known
  BY Zenon, <1>1 DEF EnclaveRecord
<1>3. enc' = [enc EXCEPT ![e] = r]
  OBVIOUS
<1> HIDE DEF r
<1> QED
  BY Zenon, <1>2, <1>3, ChangeAges

(* EnclavePrints.                                                                *)
LEMMA PrintsAges ==
  ASSUME CliTypeOK, NEW e \in DOMAIN enc, enc' = [enc EXCEPT ![e].out = @ + 1]
  PROVE  Ages /\ DOMAIN enc' = DOMAIN enc
<1> DEFINE r == [enc[e] EXCEPT !.out = @ + 1]
<1>1. enc[e] \in EnclaveRecord
  BY DEF CliTypeOK
<1>2. r \in EnclaveRecord /\ r.up = enc[e].up /\ r.name = enc[e].name /\ r.cid = enc[e].cid
      /\ r.debug = enc[e].debug /\ r.known = enc[e].known
  BY <1>1 DEF EnclaveRecord
<1>3. enc' = [enc EXCEPT ![e] = r]
  OBVIOUS
<1> HIDE DEF r
<1> QED
  BY Zenon, <1>2, <1>3, ChangeAges

(* terminate-enclave, and an enclave that prints or ends by itself.              *)
LEMMA EnclaveStepInv ==
  ASSUME CliInv,
         \/ \E p \in DOMAIN cmd : Terminate(p)
         \/ \E e \in DOMAIN enc : EnclavePrints(e) \/ EnclaveEnds(e)
  PROVE  CliInv'
<1> CliTypeOK
  BY DEF CliInv
<1>1. CASE \E p \in DOMAIN cmd : Terminate(p)
  <2>1. PICK p \in DOMAIN cmd : Terminate(p)
    BY <1>1
  <2>2. p \in Process /\ own[p].slot \in DOMAIN enc
    BY <2>1 DEF CliTypeOK, Terminate, Up
  <2>3. Ages /\ DOMAIN enc' = DOMAIN enc
    BY Zenon, <2>1, <2>2, EndsAges DEF Terminate
  <2> QED
    BY <2>1, <2>2, <2>3, ExitInv DEF Terminate
<1>2. CASE \E e \in DOMAIN enc : EnclavePrints(e) \/ EnclaveEnds(e)
  <2>1. PICK e \in DOMAIN enc : EnclavePrints(e) \/ EnclaveEnds(e)
    BY <1>2
  <2>2. Ages /\ DOMAIN enc' = DOMAIN enc
    BY <2>1, EndsAges, PrintsAges DEF EnclavePrints, EnclaveEnds
  <2>3. UNCHANGED <<cpc, cmd, own>>
    BY <2>1 DEF EnclavePrints, EnclaveEnds
  <2>4. /\ con' = [p \in Process |-> con'[p]]
        /\ \A p \in Process : con'[p] = [f \in ConField |-> con'[p][f]] /\ con'[p].on = con[p].on
    <3>1. CASE EnclaveEnds(e)
      BY <3>1 DEF EnclaveEnds, CliTypeOK
    <3>2. CASE EnclavePrints(e)
      <4>1. con' = [p \in Process |-> IF p \in Readers(e)
                                     THEN [con[p] EXCEPT !.pipe = Append(con[p].pipe, enc[e].out + 1)]
                                     ELSE con[p]]
        BY <3>2, Zenon DEF EnclavePrints
      <4>2. ASSUME NEW p \in Process
            PROVE  con'[p] = [f \in ConField |-> con'[p][f]] /\ con'[p].on = con[p].on
        <5>1. con[p] = [f \in ConField |-> con[p][f]]
          BY DEF CliTypeOK
        <5>2. CASE con'[p] = con[p]
          BY <5>1, <5>2
        <5>3. ASSUME NEW x, con'[p] = [con[p] EXCEPT !.pipe = x]
              PROVE  con'[p] = [f \in ConField |-> con'[p][f]] /\ con'[p].on = con[p].on
          BY <5>1, <5>3 DEF ConField
        <5>4. con'[p] = con[p] \/ \E x : con'[p] = [con[p] EXCEPT !.pipe = x]
          BY <4>1, Zenon
        <5> QED
          BY <5>2, <5>3, <5>4, Zenon
      <4> QED
        BY <4>1, <4>2, Zenon
    <3> QED
      BY <2>1, <3>1, <3>2
  <2>5. CliTypeOK'
    BY <2>2, <2>3, <2>4 DEF CliTypeOK, Ages
  <2>6. \A q \in Process : Knows(q)'
    BY <2>2, <2>3, <2>4, KnowsKept
  <2> QED
    BY <2>2, <2>5, <2>6, PairsKept DEF CliInv
<1> QED
  BY <1>1, <1>2

(* The steps of a console.                                                       *)
LEMMA ConsoleStepInv ==
  ASSUME CliInv, NEW p \in DOMAIN cmd, ConnectConsole(p) \/ ReadConsole(p) \/ TimerExpires(p)
  PROVE  CliInv'
<1> CliTypeOK /\ p \in Process /\ UNCHANGED enc
  BY Zenon DEF CliInv, CliTypeOK, ConnectConsole, ReadConsole, TimerExpires
<1> Ages /\ DOMAIN enc' = DOMAIN enc
  BY DEF CliTypeOK, Ages
<1>1. CASE Exit(p, "connect", "failed")
  BY <1>1, ExitInv
<1>2. ASSUME NEW e \in Offered(own[p].cid), Move(p, "connect", "read"), UNCHANGED own,
             con' = [con EXCEPT ![p].on = e, ![p].from = enc[e].out]
      PROVE  CliInv'
  <2>1. CliTypeOK'
    BY Zenon, <1>2 DEF CliTypeOK, Move, ConField
  <2>2. con'[p].on = e /\ cpc[p] = "connect" /\ cpc'[p] = "read"
    BY <1>2 DEF CliTypeOK, Move, ConField
  <2>3. enc[own[p].slot].up => e = own[p].slot
    BY <2>2 DEF CliInv, Knows, CidsDiffer, Offered, Up
  <2>4. Knows(p)'
    BY <1>2, <2>2, <2>3 DEF CliInv, Knows
  <2>5. \A q \in Process \ {p} : con'[q] = con[q]
    BY <1>2 DEF CliTypeOK
  <2> QED
    BY Zenon, <1>2, <2>1, <2>4, <2>5, MoveInv
<1>3. CASE ReadConsole(p)
  <2> DEFINE chunk == SubSeq(con[p].pipe, 1, Min({BufferSize, Len(con[p].pipe)}))
             dst == IF EndOfConsole(chunk) THEN "closed" ELSE "read"
  <2>1. Move(p, "read", dst) /\ UNCHANGED own
    BY ZenonT(30), <1>3 DEF ReadConsole
  <2>2. PICK pipe, printed, cut : con' = [con EXCEPT ![p].pipe = pipe, ![p].printed = printed, ![p].cut = cut]
    <3>1. PICK n : con' = [con EXCEPT ![p].pipe = SubSeq(@, Len(chunk) + 1, Len(@)),
                                      ![p].printed = @ \o SubSeq(chunk, 1, n),
                                      ![p].cut = @ \/ n < Len(chunk)]
      BY <1>3, Zenon DEF ReadConsole
    <3> HIDE DEF chunk
    <3> DEFINE pipe == SubSeq(con[p].pipe, Len(chunk) + 1, Len(con[p].pipe))
               printed == con[p].printed \o SubSeq(chunk, 1, n)
               cut == con[p].cut \/ n < Len(chunk)
    <3>2. con' = [con EXCEPT ![p].pipe = pipe, ![p].printed = printed, ![p].cut = cut]
      BY <3>1 DEF CliTypeOK, ConField
    <3> HIDE DEF pipe, printed, cut
    <3> QED
      BY Zenon, <3>2
  <2> HIDE DEF dst
  <2>3. CliTypeOK'
    BY Zenon, <2>1, <2>2 DEF CliTypeOK, Move, ConField
  <2>4. con'[p].on = con[p].on /\ cpc[p] = "read" /\ cpc'[p] = dst /\ dst \in {"read", "closed"}
    BY <2>1, <2>2 DEF CliTypeOK, Move, ConField, dst
  <2>5. Knows(p)'
    BY Zenon, <2>1, <2>4 DEF CliInv, Knows
  <2>6. \A q \in Process \ {p} : con'[q] = con[q]
    BY <2>2 DEF CliTypeOK
  <2> QED
    BY Zenon, <2>1, <2>3, <2>5, <2>6, MoveInv
<1>4. CASE TimerExpires(p)
  <2>1. CliTypeOK'
    BY Zenon, <1>4 DEF TimerExpires, CliTypeOK, Move, ConField
  <2>2. con'[p].on = con[p].on /\ cpc[p] = "read" /\ cpc'[p] = "read"
    BY <1>4 DEF TimerExpires, CliTypeOK, Move, ConField
  <2>3. Knows(p)'
    BY <1>4, <2>2 DEF TimerExpires, CliInv, Knows
  <2>4. \A q \in Process \ {p} : con'[q] = con[q]
    BY <1>4 DEF TimerExpires, CliTypeOK
  <2> QED
    BY <1>4, <2>1, <2>3, <2>4, MoveInv DEF TimerExpires
<1> QED
  BY Zenon, <1>1, <1>2, <1>3, <1>4 DEF ConnectConsole

(* A new enclave: its CID is one no other enclave has, its name one that its     *)
(* launch did not hear of.                                                       *)
LEMMA RunStepInv ==
  ASSUME CliInv, NEW p \in DOMAIN cmd, EnclaveRuns(p)
  PROVE  CliInv'
<1> CliTypeOK /\ p \in Process /\ cmd[p] \in Commands
  BY DEF CliInv, CliTypeOK
<1> DEFINE n == Len(enc) + 1
           Fresh(c) == [up |-> TRUE, name |-> own[p].name, cid |-> c, debug |-> DebugMode(cmd[p]),
                        out |-> 0, known |-> own[p].heard]
<1>1. PICK c \in (IF cmd[p].cid = 0 THEN AutoCid ELSE {cmd[p].cid}) \ {enc[e].cid : e \in Up} :
        /\ enc' = Append(enc, Fresh(c))
        /\ \/ /\ cmd[p].attach
              /\ Move(p, "send", "connect")
              /\ own' = [own EXCEPT ![p].slot = Len(enc) + 1, ![p].cid = c]
              /\ UNCHANGED con
           \/ ~cmd[p].attach /\ Exit(p, "send", "done")
  BY Zenon DEF EnclaveRuns
<1>2. c \in Nat /\ \A e \in Up : enc[e].cid # c
  BY CommandAssumption
<1>3. cpc[p] = "send" /\ \A e \in own[p].heard : enc[e].name # own[p].name
  BY <1>1 DEF CliInv, Knows, Exit, Move
<1>4. Fresh(c) \in EnclaveRecord
  <2>1. DebugMode(cmd[p]) \in BOOLEAN
    BY CommandAssumption DEF DebugMode
  <2> QED
    BY <1>2, <2>1 DEF CliTypeOK, EnclaveRecord
<1>5. /\ enc' \in Seq(EnclaveRecord) /\ n \in Nat
      /\ DOMAIN enc = 1..n - 1 /\ DOMAIN enc' = 1..n
      /\ \A e \in 1..n - 1 : enc'[e] = enc[e]
      /\ enc'[n] = Fresh(c)
  <2> HIDE DEF Fresh
  <2>1. enc \in Seq(EnclaveRecord)
    BY DEF CliTypeOK
  <2> QED
    BY <1>1, <1>4, <2>1, AppendProperties
<1>6. /\ enc'[n].cid = c /\ enc'[n].name = own[p].name /\ enc'[n].known = own[p].heard
      /\ enc'[n].debug = DebugMode(cmd[p])
  BY <1>5
<1> HIDE DEF n, Fresh
<1>7. Ages
  BY <1>5 DEF Ages
<1>8. n \notin DOMAIN enc /\ \A e \in Up' : e # n => e \in Up
  BY <1>5 DEF Up
<1>9. CidsDiffer'
  <2> SUFFICES ASSUME NEW a \in Up', NEW b \in Up', enc'[a].cid = enc'[b].cid PROVE a = b
    BY DEF CidsDiffer
  <2>1. \A e \in Up : enc'[e].cid = enc[e].cid
    BY <1>5 DEF Up
  <2> QED
    BY <1>2, <1>6, <1>8, <2>1 DEF CliInv, CidsDiffer
<1>10. SameNameMeansRace'
  <2> SUFFICES ASSUME NEW a \in Up', NEW b \in Up', a < b, enc'[a].name = enc'[b].name
               PROVE  a \notin enc'[b].known
    BY DEF SameNameMeansRace
  <2>1. a \in Up /\ enc'[a] = enc[a]
    <3>1. a \in 1..n /\ b \in 1..n
      BY <1>5 DEF Up
    <3>2. a # n
      BY <1>5, <3>1
    <3> QED
      BY <1>5, <1>8, <3>1, <3>2
  <2>2. CASE b = n
    BY <1>3, <1>6, <2>1, <2>2
  <2>3. CASE b # n
    <3>1. b \in Up /\ enc'[b] = enc[b]
      BY <1>5, <1>8, <2>3 DEF Up
    <3> QED
      BY <2>1, <3>1 DEF CliInv, SameNameMeansRace
  <2> QED
    BY <2>2, <2>3
<1>11. ASSUME NEW q \in Process, q # p PROVE Knows(q)'
  <2>1. cpc'[q] = cpc[q] /\ own'[q] = own[q] /\ con'[q] = con[q]
    BY <1>1, <1>11 DEF CliTypeOK, Exit, Move
  <2> QED
    BY <1>7, <2>1, KnowsKept
<1>12. CASE cmd[p].attach
  <2>1. /\ Move(p, "send", "connect") /\ UNCHANGED con
        /\ own' = [own EXCEPT ![p].slot = n, ![p].cid = c]
    BY <1>1, <1>12 DEF n
  <2>2. CliTypeOK'
    <3>1. own' \in [Process -> [heard : SUBSET Nat, name : Name, slot : Nat, cid : Nat]]
      <4> DEFINE r == [own[p] EXCEPT !.slot = n, !.cid = c]
      <4>1. r \in [heard : SUBSET Nat, name : Name, slot : Nat, cid : Nat]
        <5>1. n \in Nat /\ c \in Nat
          BY <1>2, <1>5
        <5>2. own[p] \in [heard : SUBSET Nat, name : Name, slot : Nat, cid : Nat]
          BY DEF CliTypeOK
        <5> QED
          BY Zenon, <5>1, <5>2
      <4>2. own' = [own EXCEPT ![p] = r]
        BY Zenon, <2>1 DEF CliTypeOK
      <4> HIDE DEF r
      <4> QED
        BY <4>1, <4>2 DEF CliTypeOK
    <3>2. enc' \in Seq(EnclaveRecord)
      BY <1>5
    <3>3. cpc' = [cpc EXCEPT ![p] = "connect"] /\ UNCHANGED <<cmd, con>>
      BY Zenon, <2>1, <1>5 DEF Move
    <3>4. cpc' = [q \in Process |-> cpc'[q]]
      BY Zenon, <3>3 DEF CliTypeOK
    <3> QED
      BY <3>1, <3>2, <3>3, <3>4 DEF CliTypeOK
  <2>3. own'[p].slot = n /\ own'[p].cid = c /\ own'[p].heard = own[p].heard /\ cpc'[p] = "connect"
    BY <2>1 DEF CliTypeOK, Move
  <2>4. own[p].heard \subseteq DOMAIN enc
    BY DEF CliInv, Knows
  <2>5. n \in DOMAIN enc' /\ enc'[n].debug
    <3>1. n \in DOMAIN enc'
      <4>1. n > 0
        BY DEF n, CliTypeOK
      <4> QED
        BY <1>5, <4>1
    <3>2. DebugMode(cmd[p]) = TRUE
      BY <1>12, CommandAssumption DEF DebugMode
    <3> QED
      BY <1>6, <3>1, <3>2
  <2>6. Knows(p)'
    BY Zenon, <1>6, <1>7, <2>3, <2>4, <2>5 DEF Knows, Ages
  <2> QED
    BY <1>9, <1>10, <1>11, <2>2, <2>6 DEF CliInv
<1>13. CASE ~cmd[p].attach
  <2>1. Exit(p, "send", "done")
    BY <1>1, <1>13
  <2>2. CliTypeOK'
    BY Zenon, <1>5, <2>1, NameAssumption DEF CliTypeOK, Exit, Move, NoOwn, NoCon, ConField
  <2>3. cpc'[p] = "done" /\ own'[p].heard = {}
    BY <2>1 DEF CliTypeOK, Exit, Move, NoOwn
  <2>4. Knows(p)'
    BY Zenon, <2>3 DEF Knows
  <2> QED
    BY <1>9, <1>10, <1>11, <2>2, <2>4 DEF CliInv
<1> QED
  BY <1>12, <1>13

(* The steps of builds leave the enclaves and their consoles alone.              *)
LEMMA CliUnchangedInv ==
  ASSUME CliInv, UNCHANGED cliVars
  PROVE  CliInv'
<1>1. enc' = enc /\ cpc' = cpc /\ cmd' = cmd /\ own' = own /\ con' = con
  BY DEF cliVars
<1> QED
  BY Zenon, <1>1 DEF CliInv, CliTypeOK, Knows, CidsDiffer, SameNameMeansRace, Up

(* Every step keeps the invariant.                                               *)
LEMMA CliInvNext == CliInv /\ [Next]_vars => CliInv'
<1> SUFFICES ASSUME CliInv, [Next]_vars PROVE CliInv'
  OBVIOUS
<1>1. CASE \E p \in DOMAIN cmd : CliStep(p)
  <2>1. PICK p \in DOMAIN cmd : CliStep(p)
    BY <1>1
  <2> QED
    BY Zenon, <2>1, QuietStepInv, EnclaveStepInv, ConsoleStepInv, RunStepInv
       DEF CliStep, CommandFails, SpawnProcess, GetAllEnclaveNames, NewEnclaveName, ParseEnclaveId,
           GetIdByName, ProcessGone, EnclaveProcGetCid, EnclaveProcGetFlags, TimerEvent
<1>2. CASE \E e \in DOMAIN enc : EnclavePrints(e) \/ EnclaveEnds(e)
  BY <1>2, EnclaveStepInv
<1>3. CASE UNCHANGED cliVars
  BY <1>3, CliUnchangedInv
<1> QED
  BY <1>1, <1>2, <1>3 DEF Next, World, Rest, vars

--------------------------------------------------------------------------------
(* The theorems *)

(* new_enclave_name gives a name to two enclaves that are up only if the launch   *)
(* of the later did not hear of the earlier, however many launches there are.     *)
THEOREM NamesDiffer == Spec => []SameNameMeansRace
<1>1. CliInv => SameNameMeansRace
  BY DEF CliInv
<1> QED
  BY <1>1, CliInvInit, CliInvNext, PTL DEF Spec

(* Whatever enclaves come and go between get_cid, get_flags and Console::new, a   *)
(* console shows the enclave it was opened for as long as that is up.             *)
THEOREM ConsolesAreOwn == Spec => []ConsoleIsOwn
<1>1. CliInv => ConsoleIsOwn
  BY DEF CliInv, Knows, ConsoleIsOwn
<1> QED
  BY <1>1, CliInvInit, CliInvNext, PTL DEF Spec

--------------------------------------------------------------------------------
(* What a console has shown *)

(* The characters that follow the first a, which are numbered.                   *)
Count(a, m) == [i \in 1..m |-> a + i]

(* Of the characters printed since the console was opened, some were shown and   *)
(* the others are on their way.                                                  *)
IsShown(c, out) ==
  /\ c.from \in Nat
  /\ \E m, l \in Nat :
       out = c.from + m + l /\ c.printed = Count(c.from, m) /\ c.pipe = Count(c.from + m, l)

(* No characters, one more, and some of them cut off.                            *)
LEMMA Counting ==
  ASSUME NEW a \in Nat, NEW l \in Nat
  PROVE  /\ Count(a, 0) = <<>> /\ Count(a, l) \in Seq(Nat) /\ Len(Count(a, l)) = l
         /\ Append(Count(a, l), a + l + 1) = Count(a, l + 1)
<1>1. Count(a, 0) = <<>>
  BY DEF Count
<1>2. Count(a, l) \in Seq(Nat) /\ Len(Count(a, l)) = l
  BY DEF Count
<1>3. Append(Count(a, l), a + l + 1) = Count(a, l + 1)
  BY DEF Count
<1> QED
  BY Zenon, <1>1, <1>2, <1>3

(* Characters in a row, taken apart ...                                          *)
LEMMA CountApart ==
  ASSUME NEW a \in Nat, NEW l \in Nat, NEW k \in 0..l
  PROVE  /\ SubSeq(Count(a, l), 1, k) = Count(a, k)
         /\ SubSeq(Count(a, l), k + 1, l) = Count(a + k, l - k)
<1>1. SubSeq(Count(a, l), 1, k) = Count(a, k)
  BY DEF Count
<1>2. SubSeq(Count(a, l), k + 1, l) = Count(a + k, l - k)
  BY DEF Count
<1> QED
  BY Zenon, <1>1, <1>2

(* ... and put together.                                                         *)
LEMMA CountTogether ==
  ASSUME NEW a \in Nat, NEW m \in Nat, NEW k \in Nat
  PROVE  Count(a, m) \o Count(a + m, k) = Count(a, m + k)
  BY DEF Count

(* A console that was just opened.                                               *)
LEMMA ShownAtFirst ==
  ASSUME NEW c, c.from \in Nat, c.printed = <<>>, c.pipe = <<>>
  PROVE  IsShown(c, c.from)
<1>1. c.from = c.from + 0 + 0 /\ 0 \in Nat /\ c.from + 0 = c.from
  OBVIOUS
<1>2. Count(c.from, 0) = <<>>
  BY Zenon, <1>1, Counting
<1> QED
  BY Zenon, <1>1, <1>2 DEF IsShown

(* One more character is on its way.                                             *)
LEMMA ShownMore ==
  ASSUME NEW c, NEW out, IsShown(c, out),
         NEW d, d.from = c.from, d.printed = c.printed, d.pipe = Append(c.pipe, out + 1)
  PROVE  IsShown(d, out + 1)
<1>1. PICK m, l \in Nat : out = c.from + m + l /\ c.printed = Count(c.from, m) /\ c.pipe = Count(c.from + m, l)
  BY Zenon DEF IsShown
<1>2. c.from \in Nat
  BY Zenon DEF IsShown
<1> DEFINE a == c.from + m
<1>3. a \in Nat /\ l + 1 \in Nat /\ out + 1 = a + l + 1 /\ out + 1 = c.from + m + (l + 1)
  BY <1>1, <1>2
<1>4. c.pipe = Count(a, l)
  BY Zenon, <1>1
<1> HIDE DEF a
<1>5. Append(Count(a, l), a + l + 1) = Count(a, l + 1)
  BY Zenon, <1>3, Counting
<1>6. d.pipe = Count(c.from + m, l + 1)
  BY Zenon, <1>3, <1>4, <1>5 DEF a
<1> QED
  BY Zenon, <1>1, <1>2, <1>3, <1>6 DEF IsShown

(* Some characters are read, and all of these are written.                       *)
LEMMA ShownRead ==
  ASSUME NEW c, NEW out, IsShown(c, out), NEW k \in 0..Len(c.pipe), NEW d, d.from = c.from,
         d.pipe = SubSeq(c.pipe, k + 1, Len(c.pipe)), d.printed = c.printed \o SubSeq(c.pipe, 1, k)
  PROVE  IsShown(d, out)
<1>1. PICK m, l \in Nat : out = c.from + m + l /\ c.printed = Count(c.from, m) /\ c.pipe = Count(c.from + m, l)
  BY Zenon DEF IsShown
<1>2. c.from \in Nat
  BY Zenon DEF IsShown
<1> DEFINE b == c.from
           a == b + m
<1>3. a \in Nat
  BY <1>1, <1>2
<1> HIDE DEF a
<1>4. c.pipe = Count(a, l)
  BY Zenon, <1>1 DEF a
<1>5. Len(c.pipe) = l
  BY Zenon, <1>3, <1>4, Counting
<1>6. k \in 0..l
  BY Zenon, <1>5
<1>7. k \in Nat /\ m + k \in Nat /\ l - k \in Nat
  BY <1>1, <1>6
<1>8. SubSeq(c.pipe, 1, k) = Count(a, k) /\ d.pipe = Count(a + k, l - k)
  <2>1. SubSeq(Count(a, l), 1, k) = Count(a, k) /\ SubSeq(Count(a, l), k + 1, l) = Count(a + k, l - k)
    BY Zenon, <1>3, <1>6, CountApart
  <2> QED
    BY Zenon, <1>4, <1>5, <2>1
<1>a. b \in Nat /\ out = b + m + l /\ a = b + m /\ d.from = b
  BY Zenon, <1>1, <1>2 DEF a
<1>b. c.printed = Count(b, m)
  BY Zenon, <1>1
<1> HIDE DEF b
<1>9. d.printed = Count(b, m + k)
  <2>1. Count(b, m) \o Count(b + m, k) = Count(b, m + k)
    <3>1. b \in Nat /\ m \in Nat /\ k \in Nat
      BY Zenon, <1>7, <1>a
    <3> QED
      BY Zenon, <3>1, CountTogether
  <2> QED
    BY Zenon, <1>8, <1>a, <1>b, <2>1
<1>10. a + k = b + (m + k) /\ out = b + (m + k) + (l - k)
  BY <1>7, <1>a
<1> QED
  BY Zenon, <1>7, <1>8, <1>9, <1>10, <1>a DEF IsShown

(* Nothing is on its way any more.                                               *)
LEMMA ShownAll ==
  ASSUME NEW c, NEW out, IsShown(c, out), c.pipe = <<>>
  PROVE  c.printed = Count(c.from, out - c.from)
<1>1. PICK m, l \in Nat : out = c.from + m + l /\ c.printed = Count(c.from, m) /\ c.pipe = Count(c.from + m, l)
  BY Zenon DEF IsShown
<1>2. c.from \in Nat /\ c.from + m \in Nat
  BY <1>1 DEF IsShown
<1>3. Len(c.pipe) = l
  <2>1. Len(Count(c.from + m, l)) = l
    BY Zenon, <1>2, Counting
  <2> QED
    BY Zenon, <1>1, <2>1
<1>4. l = 0
  BY <1>3
<1>5. out - c.from = m
  BY <1>1, <1>2, <1>4
<1> QED
  BY Zenon, <1>1, <1>5

Console == {"read", "closed"}

(* A console exists while it is read and after its end; if no write was cut      *)
(* short, what it has shown is in order, and at its end nothing is left.         *)
Shows(p) ==
  /\ cpc[p] \notin Console => con[p] = NoCon
  /\ cpc[p] \in Console /\ ~con[p].cut
       => con[p].on \in DOMAIN enc /\ IsShown(con[p], enc[con[p].on].out)
  /\ cpc[p] = "closed" /\ ~con[p].cut => con[p].pipe = <<>> /\ ~enc[con[p].on].up

ShownInv == \A p \in Process : Shows(p)

(* A step in which no enclave prints.                                            *)
Silent ==
  \A e \in DOMAIN enc : e \in DOMAIN enc' /\ enc'[e].out = enc[e].out /\ (enc'[e].up => enc[e].up)

(* No console is open at the beginning.                                          *)
LEMMA ShownInit == Init => ShownInv
<1> SUFFICES ASSUME Init, NEW p \in Process PROVE Shows(p)
  BY Zenon DEF ShownInv
<1>1. PICK builders \in Builders : CliInit(Cli \ builders, IF builders = Cli THEN {<<>>} ELSE Running)
  BY Zenon DEF Init
<1>2. cpc[p] \in {"idle", "spawn", "find"} /\ con[p] = NoCon
  BY Zenon, <1>1 DEF CliInit
<1>3. cpc[p] \notin Console /\ cpc[p] # "closed"
  BY <1>2 DEF Console
<1> QED
  BY Zenon, <1>2, <1>3 DEF Shows

(* A console that does nothing keeps what it has shown.                          *)
LEMMA ShowsKept ==
  ASSUME NEW q \in Process, Shows(q), Silent, cpc'[q] = cpc[q], con'[q] = con[q]
  PROVE  Shows(q)'
<1>1. CASE cpc[q] \in Console /\ ~con[q].cut
  <2>1. con[q].on \in DOMAIN enc /\ IsShown(con[q], enc[con[q].on].out)
    BY Zenon, <1>1 DEF Shows
  <2>2. /\ con[q].on \in DOMAIN enc' /\ enc'[con[q].on].out = enc[con[q].on].out
        /\ enc'[con[q].on].up => enc[con[q].on].up
    BY Zenon, <2>1 DEF Silent
  <2>3. IsShown(con'[q], enc'[con'[q].on].out)
    BY Zenon, <2>1, <2>2
  <2> QED
    BY Zenon, <1>1, <2>1, <2>2, <2>3 DEF Shows
<1>2. CASE ~(cpc[q] \in Console /\ ~con[q].cut)
  <2>1. cpc[q] = "closed" => cpc[q] \in Console
    BY Zenon DEF Console
  <2> QED
    BY Zenon, <1>2, <2>1 DEF Shows
<1> QED
  BY Zenon, <1>1, <1>2

(* Where a process goes, and that the others stay.                               *)
LEMMA Moves ==
  ASSUME CliTypeOK, NEW p \in Process, NEW src, NEW dst, Move(p, src, dst)
  PROVE  cpc[p] = src /\ cpc'[p] = dst /\ \A q \in Process : q # p => cpc'[q] = cpc[q]
<1>1. cpc = [q \in Process |-> cpc[q]] /\ cpc[p] = src /\ cpc' = [cpc EXCEPT ![p] = dst]
  BY Zenon DEF CliTypeOK, Move
<1> QED
  BY Zenon, <1>1

(* A process without a console acts, or ends.                                    *)
LEMMA OtherShown ==
  ASSUME CliTypeOK, ShownInv, Silent, NEW p \in Process, NEW src, NEW dst, dst \notin Console,
         \/ Exit(p, src, dst)
         \/ Move(p, src, dst) /\ src \notin Console /\ UNCHANGED con
  PROVE  ShownInv'
<1>1. con = [q \in Process |-> con[q]] /\ Move(p, src, dst)
  BY Zenon DEF CliTypeOK, Exit
<1>2. cpc[p] = src /\ cpc'[p] = dst /\ \A q \in Process : q # p => cpc'[q] = cpc[q]
  BY Zenon, <1>1, Moves
<1>3. con'[p] = NoCon /\ \A q \in Process : q # p => con'[q] = con[q]
  <2>1. CASE Exit(p, src, dst)
    <3>1. con' = [con EXCEPT ![p] = NoCon]
      BY Zenon, <2>1 DEF Exit
    <3> QED
      BY Zenon, <1>1, <3>1
  <2>2. CASE src \notin Console /\ UNCHANGED con
    BY Zenon, <1>2, <2>2 DEF ShownInv, Shows
  <2> QED
    BY Zenon, <2>1, <2>2
<1>4. Shows(p)'
  <2>1. dst # "closed"
    BY Zenon DEF Console
  <2> QED
    BY Zenon, <1>2, <1>3, <2>1 DEF Shows
<1>5. ASSUME NEW q \in Process, q # p PROVE Shows(q)'
  BY Zenon, <1>2, <1>3, <1>5, ShowsKept DEF ShownInv
<1> QED
  BY Zenon, <1>4, <1>5 DEF ShownInv

(* What a step does to the enclaves, if none prints.                             *)
LEMMA EnclavesSilent ==
  ASSUME CliTypeOK,
         \/ UNCHANGED enc
         \/ \E e \in DOMAIN enc : enc' = [enc EXCEPT ![e].up = FALSE]
         \/ \E r : enc' = Append(enc, r)
  PROVE  Silent
<1>0. enc \in Seq(EnclaveRecord)
  BY Zenon DEF CliTypeOK
<1>1. CASE UNCHANGED enc
  BY Zenon, <1>1 DEF Silent
<1>2. ASSUME NEW e \in DOMAIN enc, enc' = [enc EXCEPT ![e].up = FALSE] PROVE Silent
  <2>1. DOMAIN enc' = DOMAIN enc
    BY Zenon, <1>2
  <2>2. \A d \in DOMAIN enc : enc'[d] = IF d = e THEN [enc[d] EXCEPT !.up = FALSE] ELSE enc[d]
    BY Zenon, <1>2
  <2>3. \A d \in DOMAIN enc : enc[d] \in EnclaveRecord
    BY <1>0
  <2>4. \A x \in EnclaveRecord : [x EXCEPT !.up = FALSE].out = x.out /\ [x EXCEPT !.up = FALSE].up = FALSE
    BY DEF EnclaveRecord
  <2> QED
    BY Zenon, <2>1, <2>2, <2>3, <2>4 DEF Silent
<1>3. ASSUME NEW r, enc' = Append(enc, r) PROVE Silent
  <2>1. \A e \in DOMAIN enc : e \in DOMAIN enc' /\ enc'[e] = enc[e]
    BY <1>0, <1>3
  <2> QED
    BY Zenon, <2>1 DEF Silent
<1> QED
  BY Zenon, <1>1, <1>2, <1>3

(* The commands before a console is opened, and every end of a command.          *)
LEMMA CommandShown ==
  ASSUME CliTypeOK, ShownInv, NEW p \in Process,
         \/ CommandFails(p) \/ SpawnProcess(p) \/ GetAllEnclaveNames(p) \/ NewEnclaveName(p)
         \/ EnclaveRuns(p) \/ ParseEnclaveId(p) \/ GetIdByName(p) \/ ProcessGone(p) \/ Terminate(p)
         \/ EnclaveProcGetCid(p) \/ EnclaveProcGetFlags(p) \/ TimerEvent(p)
  PROVE  ShownInv'
<1> DEFINE Ends == {"failed", "done", "timed_out"}
           Goes == {"spawn", "names", "name", "send", "find", "cid", "terminate", "flags", "connect"}
<1>0. \A s \in Ends \cup Goes : s \notin Console
  BY DEF Console
<1>1. Silent
  <2>1. CASE EnclaveRuns(p)
    BY Zenon, <2>1, EnclavesSilent DEF EnclaveRuns
  <2>2. CASE Terminate(p)
    BY Zenon, <2>2, EnclavesSilent DEF Terminate, Up
  <2>3. CASE UNCHANGED enc
    BY Zenon, <2>3, EnclavesSilent
  <2> QED
    BY Zenon, <2>1, <2>2, <2>3
       DEF CommandFails, SpawnProcess, GetAllEnclaveNames, NewEnclaveName, ParseEnclaveId, GetIdByName,
           ProcessGone, EnclaveProcGetCid, EnclaveProcGetFlags, TimerEvent
<1>2. ASSUME NEW src, NEW dst \in Ends, Exit(p, src, dst) PROVE ShownInv'
  BY Zenon, <1>0, <1>1, <1>2, OtherShown
<1>3. ASSUME NEW src \in Goes, NEW dst \in Goes, Move(p, src, dst), UNCHANGED con PROVE ShownInv'
  BY Zenon, <1>0, <1>1, <1>3, OtherShown
<1>4. {"failed", "done", "timed_out"} \subseteq Ends
  OBVIOUS
<1>5. /\ {"spawn", "names", "name", "send", "find", "cid", "flags", "connect"} \subseteq Goes
      /\ Found(cmd[p]) \in Goes
  BY DEF Found
<1> HIDE DEF Ends, Goes
<1>6. CASE CommandFails(p) \/ ProcessGone(p) \/ Terminate(p) \/ TimerEvent(p)
  BY Zenon, <1>2, <1>4, <1>6 DEF CommandFails, ProcessGone, Terminate, TimerEvent
<1>7. CASE SpawnProcess(p) \/ GetAllEnclaveNames(p) \/ NewEnclaveName(p)
  BY Zenon, <1>3, <1>5, <1>7 DEF SpawnProcess, GetAllEnclaveNames, NewEnclaveName
<1>8. CASE EnclaveRuns(p)
  BY Zenon, <1>2, <1>3, <1>4, <1>5, <1>8 DEF EnclaveRuns
<1>9. CASE ParseEnclaveId(p) \/ GetIdByName(p)
  BY Zenon, <1>2, <1>3, <1>4, <1>5, <1>9 DEF ParseEnclaveId, GetIdByName
<1>10. CASE EnclaveProcGetCid(p) \/ EnclaveProcGetFlags(p)
  BY Zenon, <1>2, <1>3, <1>4, <1>5, <1>10 DEF EnclaveProcGetCid, EnclaveProcGetFlags
<1> QED
  BY Zenon, <1>6, <1>7, <1>8, <1>9, <1>10

(* A process acts on its own console.                                            *)
LEMMA OwnShown ==
  ASSUME CliTypeOK, ShownInv, NEW p \in Process, NEW src, NEW dst, Move(p, src, dst), UNCHANGED enc,
         \A q \in Process : q # p => con'[q] = con[q], Shows(p)'
  PROVE  ShownInv'
<1>1. \A q \in Process : q # p => cpc'[q] = cpc[q]
  BY Zenon, Moves
<1>2. Silent
  BY Zenon, EnclavesSilent
<1>3. ASSUME NEW q \in Process, q # p PROVE Shows(q)'
  BY Zenon, <1>1, <1>2, <1>3, ShowsKept DEF ShownInv
<1> QED
  BY Zenon, <1>3 DEF ShownInv

(* A console is opened.                                                          *)
LEMMA ConnectShown ==
  ASSUME CliTypeOK, ShownInv, NEW p \in Process, ConnectConsole(p)
  PROVE  ShownInv'
<1>1. CASE Exit(p, "connect", "failed") /\ UNCHANGED enc
  <2>1. Silent /\ "failed" \notin Console
    BY Zenon, <1>1, EnclavesSilent DEF Console
  <2> QED
    BY Zenon, <1>1, <2>1, OtherShown
<1>2. ASSUME NEW e \in Offered(own[p].cid), Move(p, "connect", "read"), UNCHANGED enc,
             con' = [con EXCEPT ![p].on = e, ![p].from = enc[e].out]
      PROVE  ShownInv'
  <2>1. cpc[p] = "connect" /\ cpc'[p] = "read"
    BY Zenon, <1>2, Moves
  <2>2. cpc[p] \notin Console /\ cpc'[p] \in Console /\ cpc'[p] # "closed"
    BY <2>1 DEF Console
  <2>3. con[p] = NoCon /\ con = [q \in Process |-> con[q]]
    BY Zenon, <2>2 DEF ShownInv, Shows, CliTypeOK
  <2>4. con'[p] = [con[p] EXCEPT !.on = e, !.from = enc[e].out] /\ \A q \in Process : q # p => con'[q] = con[q]
    BY Zenon, <1>2, <2>3
  <2>5. con'[p].on = e /\ con'[p].from = enc[e].out /\ con'[p].printed = <<>> /\ con'[p].pipe = <<>>
    BY <2>3, <2>4 DEF NoCon
  <2>6. e \in DOMAIN enc
    BY Zenon DEF Offered, Up
  <2>7. enc[e].out \in Nat
    <3>1. enc[e] \in EnclaveRecord
      BY <2>6 DEF CliTypeOK
    <3> QED
      BY <3>1 DEF EnclaveRecord
  <2>8. IsShown(con'[p], con'[p].from)
    BY Zenon, <2>5, <2>7, ShownAtFirst
  <2>9. Shows(p)'
    BY Zenon, <1>2, <2>2, <2>5, <2>6, <2>8 DEF Shows
  <2> QED
    BY Zenon, <1>2, <2>4, <2>9, OwnShown
<1> QED
  BY Zenon, <1>1, <1>2 DEF ConnectConsole

(* The timer fires.                                                              *)
LEMMA TimerShown ==
  ASSUME CliTypeOK, ShownInv, NEW p \in Process, TimerExpires(p)
  PROVE  ShownInv'
<1>1. Move(p, "read", "read") /\ con' = [con EXCEPT ![p].expired = TRUE] /\ UNCHANGED enc
  BY Zenon DEF TimerExpires
<1>2. cpc[p] = "read" /\ cpc'[p] = "read"
  BY Zenon, <1>1, Moves
<1>3. con = [q \in Process |-> con[q]] /\ con[p] = [f \in ConField |-> con[p][f]]
  BY Zenon DEF CliTypeOK
<1>4. con'[p] = [con[p] EXCEPT !.expired = TRUE] /\ \A q \in Process : q # p => con'[q] = con[q]
  BY Zenon, <1>1, <1>3
<1>5. /\ con'[p].on = con[p].on /\ con'[p].from = con[p].from /\ con'[p].printed = con[p].printed
      /\ con'[p].pipe = con[p].pipe /\ con'[p].cut = con[p].cut
  BY <1>3, <1>4 DEF ConField
<1>6. cpc[p] \in Console /\ cpc'[p] # "closed"
  BY <1>2 DEF Console
<1>7. \A out : IsShown(con[p], out) => IsShown(con'[p], out)
  BY Zenon, <1>5 DEF IsShown
<1>8. Shows(p)'
  BY Zenon, <1>1, <1>2, <1>5, <1>6, <1>7 DEF ShownInv, Shows
<1> QED
  BY Zenon, <1>1, <1>4, <1>8, OwnShown

(* The smaller of two numbers.                                                   *)
LEMMA LeastOfTwo ==
  ASSUME NEW a \in Nat, NEW b \in Nat
  PROVE  Min({a, b}) = IF a <= b THEN a ELSE b
<1>1. CASE a <= b
  <2>1. \A x \in {a, b} : (\A y \in {a, b} : x <= y) <=> x = a
    BY <1>1
  <2>2. Min({a, b}) = a
    BY Zenon, <2>1 DEF Min
  <2> QED
    BY Zenon, <1>1, <2>2
<1>2. CASE ~(a <= b)
  <2>1. \A x \in {a, b} : (\A y \in {a, b} : x <= y) <=> x = b
    BY <1>2
  <2>2. Min({a, b}) = b
    BY Zenon, <2>1 DEF Min
  <2> QED
    BY Zenon, <1>2, <2>2
<1> QED
  BY Zenon, <1>1, <1>2

(* As much is read as fits the buffer: something, if there is anything.          *)
LEMMA ChunkRead ==
  ASSUME NEW pipe \in Seq(Nat)
  PROVE  LET chunk == SubSeq(pipe, 1, Min({BufferSize, Len(pipe)}))
         IN  /\ Len(chunk) \in 0..Len(pipe) /\ chunk = SubSeq(pipe, 1, Len(chunk))
             /\ SubSeq(chunk, 1, Len(chunk)) = chunk
             /\ chunk = <<>> => pipe = <<>>
<1> DEFINE l == Len(pipe)
           k == Min({BufferSize, l})
           chunk == SubSeq(pipe, 1, k)
<1>1. BufferSize \in Nat \ {0} /\ BufferSize \in Nat /\ l \in Nat
  BY ConsoleAssumption
<1>2. k = IF BufferSize <= l THEN BufferSize ELSE l
  BY Zenon, <1>1, LeastOfTwo
<1> HIDE DEF k
<1>3. k \in 0..l /\ (k = 0 => l = 0)
  BY <1>1, <1>2
<1>4. Len(chunk) = k /\ chunk \in Seq(Nat)
  BY <1>3
<1>6. l = 0 => pipe = <<>>
  OBVIOUS
<1> HIDE DEF chunk, l
<1>5. chunk = <<>> => k = 0
  <2>1. Len(<<>>) = 0
    OBVIOUS
  <2> QED
    BY Zenon, <1>4, <2>1
<1>7. SubSeq(chunk, 1, Len(chunk)) = chunk
  BY <1>4
<1>8. Len(chunk) \in 0..l /\ chunk = SubSeq(pipe, 1, Len(chunk)) /\ (chunk = <<>> => pipe = <<>>)
  BY Zenon, <1>3, <1>4, <1>5, <1>6 DEF chunk
<1> QED
  BY Zenon, <1>7, <1>8 DEF chunk, k, l

(* A chunk is read and written.                                                  *)
LEMMA ReadShown ==
  ASSUME CliTypeOK, ShownInv, NEW p \in Process, ReadConsole(p)
  PROVE  ShownInv'
<1> DEFINE pipe == con[p].pipe
           chunk == SubSeq(pipe, 1, Min({BufferSize, Len(pipe)}))
           dst == IF chunk = <<>> THEN "closed" ELSE "read"
           Room == Min({1, Len(chunk)})..Len(chunk)
<1>1. /\ Move(p, "read", dst) /\ UNCHANGED enc /\ (pipe # <<>> \/ ~enc[con[p].on].up)
      /\ \E n \in Room :
           con' = [con EXCEPT ![p].pipe = SubSeq(@, Len(chunk) + 1, Len(@)),
                              ![p].printed = @ \o SubSeq(chunk, 1, n),
                              ![p].cut = @ \/ n < Len(chunk)]
  BY Zenon DEF ReadConsole, EndOfConsole
<1> HIDE DEF Room
<1>2. PICK n \in Room :
           con' = [con EXCEPT ![p].pipe = SubSeq(@, Len(chunk) + 1, Len(@)),
                              ![p].printed = @ \o SubSeq(chunk, 1, n),
                              ![p].cut = @ \/ n < Len(chunk)]
  BY Zenon, <1>1
<1>r. LET c == SubSeq(pipe, 1, Min({BufferSize, Len(pipe)}))
      IN  pipe \in Seq(Nat) => /\ Len(c) \in 0..Len(pipe) /\ c = SubSeq(pipe, 1, Len(c))
                               /\ SubSeq(c, 1, Len(c)) = c
                               /\ c = <<>> => pipe = <<>>
  BY Zenon, ChunkRead
<1>3. pipe \in Seq(Nat) => /\ Len(chunk) \in 0..Len(pipe) /\ chunk = SubSeq(pipe, 1, Len(chunk))
                           /\ SubSeq(chunk, 1, Len(chunk)) = chunk
                           /\ chunk = <<>> => pipe = <<>>
  BY Zenon, <1>r
<1> HIDE DEF chunk
<1>4. con = [q \in Process |-> con[q]] /\ con[p] = [f \in ConField |-> con[p][f]]
  BY Zenon DEF CliTypeOK
<1>5. /\ con'[p] = [con[p] EXCEPT !.pipe = SubSeq(pipe, Len(chunk) + 1, Len(pipe)),
                                  !.printed = con[p].printed \o SubSeq(chunk, 1, n),
                                  !.cut = con[p].cut \/ n < Len(chunk)]
      /\ \A q \in Process : q # p => con'[q] = con[q]
  BY Zenon, <1>2, <1>4 DEF ConField
<1>6. /\ con'[p].on = con[p].on /\ con'[p].from = con[p].from
      /\ con'[p].pipe = SubSeq(pipe, Len(chunk) + 1, Len(pipe))
      /\ con'[p].printed = con[p].printed \o SubSeq(chunk, 1, n)
      /\ con'[p].cut = (con[p].cut \/ n < Len(chunk))
  BY Zenon, <1>4, <1>5 DEF ConField
<1>7. cpc[p] = "read" /\ cpc'[p] = dst
  BY Zenon, <1>1, Moves
<1>8. cpc[p] \in Console /\ cpc'[p] \in Console /\ (cpc'[p] = "closed" => chunk = <<>>)
  BY <1>7 DEF Console
<1>9. ASSUME ~con'[p].cut
      PROVE  /\ con'[p].on \in DOMAIN enc' /\ IsShown(con'[p], enc'[con'[p].on].out)
             /\ cpc'[p] = "closed" => con'[p].pipe = <<>> /\ ~enc'[con'[p].on].up
  <2>1. ~con[p].cut /\ ~(n < Len(chunk))
    BY Zenon, <1>6, <1>9
  <2>2. con[p].on \in DOMAIN enc /\ IsShown(con[p], enc[con[p].on].out)
    BY Zenon, <1>8, <2>1 DEF ShownInv, Shows
  <2>3. pipe \in Seq(Nat)
    <3>1. PICK m, l \in Nat : con[p].from \in Nat /\ pipe = Count(con[p].from + m, l)
      BY Zenon, <2>2 DEF IsShown
    <3>2. con[p].from + m \in Nat
      BY <3>1
    <3> QED
      BY Zenon, <3>1, <3>2, Counting
  <2>4. n = Len(chunk)
    <3>1. n \in Int /\ n <= Len(chunk) /\ Len(chunk) \in Nat
      BY <1>3, <2>3 DEF Room
    <3> QED
      BY <2>1, <3>1
  <2>5. con'[p].printed = con[p].printed \o SubSeq(pipe, 1, Len(chunk))
    BY Zenon, <1>3, <1>6, <2>3, <2>4
  <2>6. IsShown(con'[p], enc[con[p].on].out)
    BY Zenon, <1>3, <1>6, <2>2, <2>3, <2>5, ShownRead
  <2>7. ASSUME chunk = <<>> PROVE con'[p].pipe = <<>> /\ ~enc[con[p].on].up
    <3>1. pipe = <<>>
      BY Zenon, <1>3, <2>3, <2>7
    <3>2. SubSeq(<<>>, Len(<<>>) + 1, Len(<<>>)) = <<>>
      OBVIOUS
    <3> QED
      BY Zenon, <1>1, <1>6, <2>7, <3>1, <3>2
  <2> QED
    BY Zenon, <1>1, <1>6, <1>8, <2>2, <2>6, <2>7
<1>10. Shows(p)'
  BY Zenon, <1>8, <1>9 DEF Shows
<1> QED
  BY Zenon, <1>1, <1>5, <1>10, OwnShown

(* An enclave prints: what it prints is on its way to all of its consoles.       *)
LEMMA PrintShown ==
  ASSUME CliTypeOK, ShownInv, NEW e \in DOMAIN enc, EnclavePrints(e)
  PROVE  ShownInv'
<1>1. /\ enc[e].up /\ enc' = [enc EXCEPT ![e].out = @ + 1] /\ UNCHANGED cpc
      /\ con' = [p \in Process |-> IF p \in Readers(e)
                                  THEN [con[p] EXCEPT !.pipe = Append(@, enc[e].out + 1)] ELSE con[p]]
  BY Zenon DEF EnclavePrints
<1>2. /\ DOMAIN enc' = DOMAIN enc /\ enc'[e].out = enc[e].out + 1
      /\ \A d \in DOMAIN enc : d # e => enc'[d] = enc[d]
  <2>1. enc[e] \in EnclaveRecord
    BY DEF CliTypeOK
  <2>2. enc'[e] = [enc[e] EXCEPT !.out = enc[e].out + 1]
    BY Zenon, <1>1
  <2>3. enc'[e].out = enc[e].out + 1
    BY <2>1, <2>2 DEF EnclaveRecord
  <2> QED
    BY Zenon, <1>1, <2>3
<1>3. ASSUME NEW p \in Process, p \in Readers(e) PROVE Shows(p)'
  <2>1. cpc[p] = "read" /\ con[p].on = e
    BY Zenon, <1>3 DEF Readers
  <2>2. con'[p] = [con[p] EXCEPT !.pipe = Append(con[p].pipe, enc[e].out + 1)]
    BY Zenon, <1>1, <1>3
  <2>3. con[p] = [f \in ConField |-> con[p][f]]
    BY Zenon DEF CliTypeOK
  <2>4. /\ con'[p].on = con[p].on /\ con'[p].from = con[p].from /\ con'[p].printed = con[p].printed
        /\ con'[p].pipe = Append(con[p].pipe, enc[e].out + 1) /\ con'[p].cut = con[p].cut
    BY Zenon, <2>2, <2>3 DEF ConField
  <2>5. cpc'[p] = "read" /\ cpc[p] \in Console /\ cpc'[p] # "closed" /\ cpc'[p] \in Console
    BY <1>1, <2>1 DEF Console
  <2>6. ASSUME ~con[p].cut PROVE IsShown(con'[p], enc[e].out + 1)
    <3>1. IsShown(con[p], enc[e].out)
      BY Zenon, <2>1, <2>5, <2>6 DEF ShownInv, Shows
    <3> QED
      BY Zenon, <2>4, <3>1, ShownMore
  <2> QED
    BY Zenon, <1>2, <2>1, <2>4, <2>5, <2>6 DEF Shows
<1>4. ASSUME NEW p \in Process, p \notin Readers(e) PROVE Shows(p)'
  <2>1. con'[p] = con[p] /\ cpc'[p] = cpc[p]
    BY Zenon, <1>1, <1>4
  <2>2. CASE cpc[p] \in Console /\ ~con[p].cut
    <3>1. con[p].on \in DOMAIN enc /\ IsShown(con[p], enc[con[p].on].out)
      BY Zenon, <2>2 DEF ShownInv, Shows
    <3>2. con[p].on # e
      <4>1. CASE cpc[p] = "read"
        BY Zenon, <1>4, <4>1 DEF Readers
      <4>2. CASE cpc[p] = "closed"
        BY Zenon, <1>1, <2>2, <4>2 DEF ShownInv, Shows
      <4> QED
        BY Zenon, <2>2, <4>1, <4>2 DEF Console
    <3>3. enc'[con[p].on] = enc[con[p].on] /\ con[p].on \in DOMAIN enc'
      BY Zenon, <1>2, <3>1, <3>2
    <3>4. cpc[p] = "closed" => con[p].pipe = <<>> /\ ~enc[con[p].on].up
      BY Zenon, <2>2 DEF ShownInv, Shows
    <3> QED
      BY Zenon, <2>1, <2>2, <3>1, <3>3, <3>4 DEF Shows
  <2>3. CASE ~(cpc[p] \in Console /\ ~con[p].cut)
    <3>1. cpc[p] = "closed" => cpc[p] \in Console
      BY Zenon DEF Console
    <3> QED
      BY Zenon, <2>1, <2>3, <3>1 DEF ShownInv, Shows
  <2> QED
    BY Zenon, <2>2, <2>3
<1> QED
  BY Zenon, <1>3, <1>4 DEF ShownInv

(* Every step keeps what is known of the consoles.                               *)
LEMMA ShownNext == CliInv /\ ShownInv /\ [Next]_vars => ShownInv'
<1> SUFFICES ASSUME CliInv, ShownInv, [Next]_vars PROVE ShownInv'
  BY Zenon
<1>0. CliTypeOK /\ \A p \in DOMAIN cmd : p \in Process
  BY Zenon DEF CliInv, CliTypeOK
<1>1. ASSUME NEW p \in DOMAIN cmd, CliStep(p) PROVE ShownInv'
  BY Zenon, <1>0, <1>1, CommandShown, ConnectShown, ReadShown, TimerShown DEF CliStep
<1>2. ASSUME NEW e \in DOMAIN enc, EnclavePrints(e) PROVE ShownInv'
  BY Zenon, <1>0, <1>2, PrintShown
<1>3. ASSUME Silent, UNCHANGED <<cpc, con>> PROVE ShownInv'
  BY Zenon, <1>3, ShowsKept DEF ShownInv
<1>4. ASSUME NEW e \in DOMAIN enc, EnclaveEnds(e) PROVE ShownInv'
  <2>1. Silent
    BY Zenon, <1>0, <1>4, EnclavesSilent DEF EnclaveEnds
  <2> QED
    BY Zenon, <1>3, <1>4, <2>1 DEF EnclaveEnds
<1>5. CASE UNCHANGED cliVars
  <2>1. Silent
    BY Zenon, <1>0, <1>5, EnclavesSilent DEF cliVars
  <2> QED
    BY Zenon, <1>3, <1>5, <2>1 DEF cliVars
<1> QED
  BY Zenon, <1>1, <1>2, <1>4, <1>5 DEF Next, World, Rest, vars

(* However an enclave prints, its readers read and their writes are taken, a      *)
(* console that was closed by the end of its enclave has shown everything since   *)
(* it was opened, in order, if every write took all it was given.                 *)
THEOREM ConsolesAreComplete == Spec => []ConsoleIsComplete
<1>1. Init => CliInv /\ ShownInv
  BY Zenon, CliInvInit, ShownInit
<1>2. (CliInv /\ ShownInv) /\ [Next]_vars => (CliInv /\ ShownInv)'
  BY Zenon, CliInvNext, ShownNext
<1>3. ShownInv => ConsoleIsComplete
  <2> SUFFICES ASSUME ShownInv, NEW p \in Process, cpc[p] = "closed", ~con[p].cut
               PROVE  con[p].printed = [i \in 1..enc[con[p].on].out - con[p].from |-> con[p].from + i]
    BY Zenon DEF ConsoleIsComplete
  <2>1. cpc[p] \in Console
    BY Zenon DEF Console
  <2>2. IsShown(con[p], enc[con[p].on].out) /\ con[p].pipe = <<>>
    BY Zenon, <2>1 DEF ShownInv, Shows
  <2>3. con[p].printed = Count(con[p].from, enc[con[p].on].out - con[p].from)
    BY Zenon, <2>2, ShownAll
  <2> QED
    BY Zenon, <2>3 DEF Count
<1> QED
  BY <1>1, <1>2, <1>3, PTL DEF Spec

================================================================================
