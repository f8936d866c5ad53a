------------------------------ MODULE SourceRead ------------------------------
(***************************************************************************)
(* How an import reads its source (readBoundedSource of                    *)
(* src/src/import/audit-package-importer.mjs): the path is examined,       *)
(* opened, the handle examined, read in pieces, and both are examined      *)
(* again, while other processes write the file or put another one in its   *)
(* place between any two of these calls.                                   *)
(*                                                                         *)
(* A block of content is modelled by who wrote it and when.  A write gives *)
(* its file a new modification time; a file that is moved into place may   *)
(* carry any time, the same one included.                                  *)
(***************************************************************************)
EXTENDS Naturals, SequencesExt

CONSTANTS
  Files,                          \* file objects the path may come to name
  MaxBytes, Buffer,               \* limits.maxSourceBytes and 64 KiB, in blocks
  MaxLength, MaxChanges,          \* bounds of the other processes
  Nothing

VARIABLES
  identified,                     \* whether the file system reports ino and dev
  file, named, changes,           \* content and time of each file; what the path names
  pc, pathState, before, after,   \* the reader and the three states it compares
  handle, data, shown             \* open file, bytes read; history: content at "before"

disk   == <<file, named, changes>>
reader == <<pc, pathState, before, after, handle, data, shown>>
vars   == <<identified, disk, reader>>

How == {"regular", "link", "other"}      \* what lstat says of the path
StateOf(f, how) == [id |-> f, how |-> how, size |-> Len(file[f].data), mtime |-> file[f].mtime]

-----------------------------------------------------------------------------
\* Plausible faults, used only to show that the properties can fail.
SizeOnly(l, r)    == l.size = r.size /\ (identified => l.id = r.id)
PathOnly(p)       == p.how # "link" /\ SizeOnly(after, p)
-----------------------------------------------------------------------------
SameFile(l, r) == l.size = r.size /\ l.mtime = r.mtime /\ (identified => l.id = r.id)

\* One block more than the limit leaves is asked for, to notice a source that is too long.
BufferSize(total) == IF Buffer < MaxBytes - total + 1 THEN Buffer ELSE MaxBytes - total + 1

Unchanged(p) == p.how # "link" /\ SameFile(before, after) /\ SameFile(after, p)

Init ==
  /\ identified \in BOOLEAN
  /\ \E size \in [Files -> 0..MaxLength] :
       file = [f \in Files |-> [data |-> [n \in 1..size[f] |-> <<f, 0>>], mtime |-> 0]]
  /\ named \in [id : Files, how : How] \cup {Nothing} /\ changes = 0
  /\ pc = "lstat" /\ pathState = Nothing /\ before = Nothing /\ after = Nothing
  /\ handle = Nothing /\ data = <<>> /\ shown = <<>>

\* Every way out closes the handle.
End(result) == pc' = result /\ handle' = Nothing

Reading == pc \notin {"accepted", "rejected"}

\* A call that fails rejects the source; so does a path that names nothing.
CallFails ==
  /\ Reading /\ End("rejected")
  /\ UNCHANGED <<identified, disk, pathState, before, after, data, shown>>

ExaminePath ==
  /\ pc = "lstat" /\ named # Nothing
  /\ pathState' = StateOf(named.id, named.how)
  /\ IF named.how = "regular" /\ pathState'.size <= MaxBytes
     THEN pc' = "open" /\ UNCHANGED handle ELSE End("rejected")
  /\ UNCHANGED <<identified, disk, before, after, data, shown>>

\* open follows a link that was not there when the path was examined.
Open ==
  /\ pc = "open" /\ named # Nothing /\ pc' = "before"
  /\ handle' = [id |-> named.id, how |-> IF named.how = "other" THEN "other" ELSE "regular"]
  /\ UNCHANGED <<identified, disk, pathState, before, after, data, shown>>

ExamineBefore ==
  /\ pc = "before"
  /\ before' = StateOf(handle.id, handle.how) /\ shown' = file[handle.id].data
  /\ IF before'.how = "regular" /\ SameFile(pathState, before')
     THEN pc' = "read" /\ UNCHANGED handle ELSE End("rejected")
  /\ UNCHANGED <<identified, disk, pathState, after, data>>

\* One read: any number of blocks that are there; none at the end of the file.
Read ==
  /\ pc = "read"
  /\ LET content == file[handle.id].data
         total   == Len(data)
     IN  IF Len(content) <= total
         THEN pc' = "after" /\ UNCHANGED <<data, handle>>
         ELSE \E n \in 1..BufferSize(total) :
                /\ total + n <= Len(content)
                /\ data' = data \o SubSeq(content, total + 1, total + n)
                /\ IF total + n > MaxBytes THEN End("rejected") ELSE UNCHANGED <<pc, handle>>
  /\ UNCHANGED <<identified, disk, pathState, before, after, shown>>

ExamineAfter ==
  /\ pc = "after" /\ after' = StateOf(handle.id, handle.how) /\ pc' = "path"
  /\ UNCHANGED <<identified, disk, pathState, before, handle, data, shown>>

Compare ==
  /\ pc = "path" /\ named # Nothing
  /\ End(IF Unchanged(StateOf(named.id, named.how)) THEN "accepted" ELSE "rejected")
  /\ UNCHANGED <<identified, disk, pathState, before, after, data, shown>>

\* Another process writes one block, appends one or truncates the file.
Write(f) ==
  /\ \E content \in {ReplaceAt(file[f].data, n, <<f, changes + 1>>) : n \in DOMAIN file[f].data}
                     \cup {Append(file[f].data, <<f, changes + 1>>), <<>>} :
       /\ Len(content) <= MaxLength
       /\ file' = [file EXCEPT ![f] = [data |-> content, mtime |-> changes + 1]]
  /\ UNCHANGED named

\* Another process removes the file, moves one into its place, or puts a link there.
Move == named' \in ([id : Files, how : How] \cup {Nothing}) \ {named} /\ UNCHANGED file

Change ==
  /\ Reading /\ changes < MaxChanges /\ changes' = changes + 1
  /\ (Move \/ \E f \in Files : Write(f))
  /\ UNCHANGED <<identified, reader>>

Next == \/ CallFails \/ ExaminePath \/ Open \/ ExamineBefore \/ Read \/ ExamineAfter \/ Compare
        \/ Change

Spec == Init /\ [][Next]_vars

-----------------------------------------------------------------------------
(* Properties                                                              *)

\* However the source grows, the reader never holds more than one block over the limit.
TypeOK ==
  /\ {pathState, before, after} \subseteq [id : Files, how : How, size : 0..MaxLength, mtime : 0..MaxChanges] \cup {Nothing}
  /\ Len(data) <= MaxBytes + 1 /\ (pc = "accepted" => Len(data) <= MaxBytes)

\* What is accepted is the content the opened file had at one moment, never a mixture of
\* two versions nor a part, on file systems without file identities too.
AcceptedIsOneVersion == pc = "accepted" => data = shown

\* When the read is accepted the path names a regular file of exactly these bytes: what
\* was imported is what the user would find there.
AcceptedIsCurrent ==
  [][pc # "accepted" /\ pc' = "accepted" /\ identified
       => named.how # "link" /\ file[named.id].data = data]_vars
=============================================================================
