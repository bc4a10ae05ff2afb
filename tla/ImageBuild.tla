------------------------------ MODULE ImageBuild ------------------------------
(***************************************************************************)
(* build-enclave: an image file is made from a Docker image (build_enclaves*)
(* of src/lib.rs and the crate enclave_build). The Docker image is named   *)
(* by a tag, which is looked up at every step; the two ramdisks are built  *)
(* under fixed names in a directory that builds share; the output file is  *)
(* truncated before anything else can fail.                                *)
(***************************************************************************)
EXTENDS Naturals, Sequences, FiniteSets

CONSTANTS
  Cli,        \* CLI processes
  Image,      \* Docker images: [id, cmd, entrypoint, arch]
  BuildArgs,  \* arguments: [cert, key, source, output]; source is the image a
              \* Dockerfile directory gives, or NoImage to take the tag as it is
  NoImage, Registry,
  MaxRetags

VARIABLES
  bpc,        \* where each build is
  bargs,
  tag,        \* the image the tag names in the local Docker daemon
  retags,
  ramdisk,    \* customer-initrd.img in the artifacts directory
  eif,        \* the output file of each path
  loaded,     \* the image each build took cmd and env from
  arch,       \* the image each build took its architecture from
  ident,      \* the image each build took its metadata from
  apart       \* builds during which neither the tag nor the ramdisks changed hands

buildVars == <<bpc, bargs, tag, retags, ramdisk, eif, loaded, arch, ident, apart>>

Empty == [state |-> "empty", by |-> NoImage]

(* What write_to puts together.                                                 *)
Content(p, st) == [state |-> st, by |-> p, root |-> ramdisk.root, cmd |-> ramdisk.cmd,
                   arch |-> arch[p], ident |-> ident[p]]

(* A build that is between its first look at the image and its last use of it.   *)
Underway(p) == bpc[p] \in {"bootstrap", "customer", "arch", "identity", "write", "flush"}

BuildInit(builders, tags) ==
  /\ bpc = [p \in Cli |-> IF p \in builders THEN "args" ELSE "idle"]
  /\ bargs \in [builders -> BuildArgs]
  /\ tag \in tags /\ retags = 0
  /\ ramdisk = [root |-> NoImage, cmd |-> NoImage]
  /\ eif = [o \in {a.output : a \in BuildArgs} |-> Empty]
  /\ loaded = [p \in Cli |-> NoImage] /\ arch = [p \in Cli |-> NoImage]
  /\ ident = [p \in Cli |-> NoImage] /\ apart = Cli

At(p, from, to) == bpc[p] = from /\ bpc' = [bpc EXCEPT ![p] = to]

(* Every fallible call ends the command with an error, also a write half way; the *)
(* output file stays as it then is.                                              *)
BuildFails(p) ==
  /\ \E s \in {"blobs", "open", "new", "image", "load", "bootstrap", "customer", "arch", "identity",
                "write", "flush"} : At(p, s, "failed")
  /\ UNCHANGED <<bargs, tag, retags, ramdisk, eif, loaded, arch, ident, apart>>

(* BuildEnclavesArgs::new_with: certificate and key come together.               *)
ParseBuildArgs(p) ==
  /\ At(p, "args", IF bargs[p].cert = bargs[p].key THEN "blobs" ELSE "failed")
  /\ UNCHANGED <<bargs, tag, retags, ramdisk, eif, loaded, arch, ident, apart>>

(* build_from_docker: the kernel's command line is read from the blobs ...        *)
ReadBlobs(p) ==
  /\ At(p, "blobs", "open")
  /\ UNCHANGED <<bargs, tag, retags, ramdisk, eif, loaded, arch, ident, apart>>

(* ... and the output file is opened, created or truncated.                       *)
OpenOutput(p) ==
  /\ At(p, "open", "new")
  /\ eif' = [eif EXCEPT ![bargs[p].output] = Empty]
  /\ UNCHANGED <<bargs, tag, retags, ramdisk, loaded, arch, ident, apart>>

(* artifacts_path, then Docker2Eif::new, which looks at all the paths and reads    *)
(* the signing key.                                                                *)
NewDocker2Eif(p) ==
  /\ At(p, "new", "image")
  /\ UNCHANGED <<bargs, tag, retags, ramdisk, eif, loaded, arch, ident, apart>>

(* The tag comes to name another image: every other build underway is disturbed.   *)
MoveTag(to, p) ==
  /\ tag' = to
  /\ apart' = IF to = tag THEN apart ELSE apart \ {q \in Cli \ {p} : Underway(q)}

(* build_image gives the tag to what the Dockerfile makes.                          *)
BuildDockerImage(p) ==
  /\ bargs[p].source # NoImage
  /\ At(p, "image", "load")
  /\ MoveTag(bargs[p].source, p)
  /\ UNCHANGED <<bargs, retags, ramdisk, eif, loaded, arch, ident>>

(* DockerUtil::inspect asks the daemon for what the tag names now.                   *)
Inspectable == tag # NoImage

(* pull_image keeps an image that is there; otherwise the registry's is taken,       *)
(* with or without credentials.                                                     *)
PullDockerImage(p) ==
  /\ bargs[p].source = NoImage
  /\ At(p, "image", "load")
  /\ MoveTag(IF Inspectable THEN tag ELSE Registry, p)
  /\ UNCHANGED <<bargs, retags, ramdisk, eif, loaded, arch, ident>>

(* Somebody else tags, pulls or removes the image.                                   *)
Retag ==
  /\ retags < MaxRetags
  /\ retags' = retags + 1
  /\ \E i \in (Image \cup {NoImage}) \ {tag} :
       tag' = i /\ apart' = apart \ {q \in Cli : Underway(q)}
  /\ UNCHANGED <<bpc, bargs, ramdisk, eif, loaded, arch, ident>>

(* extract_image: CMD, or else ENTRYPOINT.                                           *)
ExtractImage(i) == i.cmd \/ i.entrypoint

(* DockerUtil::load: the command and the environment go to files.                    *)
LoadImageConfig(p) ==
  /\ LET usable == Inspectable /\ ExtractImage(tag)
     IN  /\ At(p, "load", IF usable THEN "bootstrap" ELSE "failed")
         /\ loaded' = [loaded EXCEPT ![p] = IF usable THEN tag ELSE @]
  /\ apart' = apart \cup {p}
  /\ UNCHANGED <<bargs, tag, retags, ramdisk, eif, arch, ident>>

(* linuxkit makes the bootstrap ramdisk; all builds make the same one.               *)
BootstrapRamfs(p) ==
  /\ At(p, "bootstrap", "customer")
  /\ UNCHANGED <<bargs, tag, retags, ramdisk, eif, loaded, arch, ident, apart>>

(* get_customer_ramfs: the root file system is named by the tag, the two files by     *)
(* their paths. What the daemon does not have, linuxkit takes from the registry.     *)
CustomerYaml(p) == [root |-> IF Inspectable THEN tag ELSE Registry, cmd |-> loaded[p]]

(* Mutant: the exit status of linuxkit is not looked at. *)
IgnoreExitStatus(p) ==
  /\ At(p, "customer", "arch")
  /\ ramdisk' \in {ramdisk, CustomerYaml(p)}
  /\ apart' = apart \ {q \in Cli \ {p} : bpc[q] \in {"arch", "identity", "write"}}
  /\ UNCHANGED <<bargs, tag, retags, eif, loaded, arch, ident>>

(* linuxkit makes the customer ramdisk.                                              *)
CustomerRamfs(p) ==
  /\ At(p, "customer", "arch")
  /\ ramdisk' = CustomerYaml(p)
  /\ apart' = apart \ {q \in Cli \ {p} : bpc[q] \in {"arch", "identity", "write"}}
  /\ UNCHANGED <<bargs, tag, retags, eif, loaded, arch, ident>>

Architecture(p) ==
  /\ LET supported == Inspectable /\ tag.arch
     IN  /\ At(p, "arch", IF supported THEN "identity" ELSE "failed")
         /\ arch' = [arch EXCEPT ![p] = IF supported THEN tag ELSE @]
  /\ UNCHANGED <<bargs, tag, retags, ramdisk, eif, loaded, ident, apart>>

GenerateIdentityInfo(p) ==
  /\ Inspectable
  /\ At(p, "identity", "write")
  /\ ident' = [ident EXCEPT ![p] = tag]
  /\ UNCHANGED <<bargs, tag, retags, ramdisk, eif, loaded, arch, apart>>

(* EifBuilder::write_to: the ramdisks are read, and the file is written from its    *)
(* beginning, piece by piece and without being truncated again.                     *)
BeginWrite(p) ==
  /\ At(p, "write", "flush")
  /\ LET o == bargs[p].output
     IN  eif' = [eif EXCEPT ![o] = Content(p, IF @ = Empty THEN "partial" ELSE "mixed")]
  /\ UNCHANGED <<bargs, tag, retags, ramdisk, loaded, arch, ident, apart>>

EndWrite(p) ==
  /\ At(p, "flush", "done")
  /\ LET o == bargs[p].output
     IN  eif' = [eif EXCEPT ![o] = IF @.state = "partial" /\ @.by = p
                                  THEN [@ EXCEPT !.state = "whole"] ELSE Content(p, "mixed")]
  /\ UNCHANGED <<bargs, tag, retags, ramdisk, loaded, arch, ident, apart>>

BuildStep(p) ==
  \/ BuildFails(p) \/ ParseBuildArgs(p) \/ ReadBlobs(p) \/ OpenOutput(p) \/ NewDocker2Eif(p)
  \/ BuildDockerImage(p) \/ PullDockerImage(p) \/ LoadImageConfig(p) \/ BootstrapRamfs(p)
  \/ CustomerRamfs(p) \/ Architecture(p) \/ GenerateIdentityInfo(p) \/ BeginWrite(p) \/ EndWrite(p)

--------------------------------------------------------------------------------
(* Properties *)

(* The root file system, the command, the architecture and the metadata of an      *)
(* image file are of one Docker image, although the tag is looked up four times     *)
(* and the ramdisk lies in a directory shared by all builds, whatever earlier and   *)
(* failed builds left there. It holds unless, while the build was underway, the tag *)
(* moved or another build made its ramdisk.                                         *)
OneImagePerFile ==
  \A o \in DOMAIN eif :
    eif[o].state = "whole" /\ eif[o].by \in apart
      => /\ eif[o].root = eif[o].cmd
         /\ eif[o].arch = eif[o].cmd
         /\ eif[o].ident = eif[o].cmd
================================================================================
