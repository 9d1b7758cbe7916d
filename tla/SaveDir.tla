------------------------------- MODULE SaveDir ------------------------------
(***************************************************************************)
(* The directory uploads are saved in, as the calls of the receiver use    *)
(* it: os.Stat, os.Create, File.Write and os.Remove.  A path names an      *)
(* inode; a handler that created a file keeps writing to its inode         *)
(* whatever happens to the path.  The content of an inode is one mark per  *)
(* chunk: the upload that wrote it, "old" for what was there before, or    *)
(* "hole" where a truncation left the offset of a writer behind.           *)
(***************************************************************************)
EXTENDS Naturals, Sequences

CONSTANTS
  Path,      \* the names in the directory
  Writer,    \* who creates files; a file created by w is the inode w
  Existing,  \* the paths present before any upload, each its own inode
  OldLength  \* the size of every existing file

ASSUME SaveDirAssumption ==
  /\ Existing \subseteq Path
  /\ Writer \cap Path = {}
  /\ OldLength \in [Existing -> Nat]

VARIABLES
  dir,   \* the entries: a function from the paths present to inodes
  data   \* the content of every inode

fsVars == <<dir, data>>

Inode == Writer \cup Existing

Mark == Writer \cup {"old", "hole"}

Present(p) == p \in DOMAIN dir

Length(p) == Len(data[dir[p]])

SaveDirTypeOK ==
  /\ dir \in [DOMAIN dir -> Inode]
  /\ DOMAIN dir \subseteq Path
  /\ data \in [Inode -> Seq(Mark)]

OldContent(p) == [k \in 1..OldLength[p] |-> "old"]

SaveDirInit ==
  /\ dir = [p \in Existing |-> p]
  /\ data = [i \in Inode |-> IF i \in Existing THEN OldContent(i) ELSE << >>]

(***************************************************************************)
(* os.Create: O_CREATE and O_TRUNC without O_EXCL.  A file that is there   *)
(* is opened and emptied; otherwise w makes a new one.                     *)
(***************************************************************************)
Opened(p, w) == IF Present(p) THEN dir[p] ELSE w

CreateFile(p, w) ==
  /\ dir' = [q \in DOMAIN dir \cup {p} |-> IF q = p THEN Opened(p, w) ELSE dir[q]]
  /\ data' = [data EXCEPT ![Opened(p, w)] = << >>]

(* The write of chunk k through a descriptor of inode i.                   *)
Put(content, k, w) ==
  [j \in 1..(IF k > Len(content) THEN k ELSE Len(content)) |->
     IF j = k THEN w ELSE IF j <= Len(content) THEN content[j] ELSE "hole"]

WriteChunk(i, k, w) ==
  /\ data' = [data EXCEPT ![i] = Put(@, k, w)]
  /\ UNCHANGED dir

(* os.Remove takes the path out, whoever created the file; it fails, and   *)
(* the failure is ignored, when the path is not there.                     *)
RemoveFile(p) ==
  /\ dir' = [q \in DOMAIN dir \ {p} |-> dir[q]]
  /\ UNCHANGED data

=============================================================================
