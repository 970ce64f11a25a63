-------------------------------- MODULE TosFile --------------------------------
(***************************************************************************)
(* A file as Lua programs use it: open with a mode, read, write, seek and  *)
(* close of TOS (tos.cpp) and lib-io over FileIO, which is the same inode  *)
(* as FilesystemCore sees it.  Catalogs are used by the core alone: they   *)
(* are the behaviours with mode "core".                                    *)
(*                                                                         *)
(* The file exists: what open does when it does not is in Filesystem, and  *)
(* what it may do at all in Access.                                        *)
(***************************************************************************)
EXTENDS FileIO

VARIABLES
  mode,         \* m_files: how the file is open; "none", "core"
  moved         \* history: a seek since then

tosVars == <<mode, moved>>

Modes == {"r", "w", "a", "r+", "w+", "a+"}

\* to_mode
Exist(m)   == m \in {"r", "r+"}
Appends(m)  == m \in {"a", "a+"}
Reads(m)   == m \in {"r", "r+", "w+", "a+"}
Writes(m)  == m \in Modes \ {"r"}
Extends(m) == m \in {"w", "w+", "a", "a+"}

TosInit == Init /\ mode \in {"none", "core"} /\ moved = FALSE

\* Slip: the pointer is not moved to the end.
BeginsAtFirst(m) == 0

Begins(m) == IF Appends(m) THEN isize ELSE 0

\* open, with the clear of "w".
Open(m) ==
  /\ mode = "none"
  /\ mode' = m /\ moved' = FALSE
  /\ IF Exist(m) \/ Appends(m)
     THEN UNCHANGED <<isize, bytes, written>>
     ELSE isize' = 0 /\ bytes' = Resized(0) /\ written' = Nothing
  /\ ptr' = Begins(m) /\ ptr' <= PtrBound
  /\ got' = NoRead

Close ==
  /\ mode \in Modes
  /\ mode' = "none" /\ moved' = FALSE
  /\ ptr' = 0 /\ got' = NoRead
  /\ UNCHANGED <<isize, bytes, written>>

TosRead(count) == Reads(mode) /\ Read(count) /\ UNCHANGED tosVars

TosWrite(data) ==
  /\ Writes(mode)
  /\ Extends(mode) \/ (ptr + Len(data)) % Wrap <= isize
  /\ Write(data)
  /\ UNCHANGED tosVars

TosSeek(origin, count) ==
  /\ mode \in Modes
  /\ Seek(origin, count)
  /\ moved' = TRUE /\ UNCHANGED mode

Core(call) == mode = "core" /\ call /\ UNCHANGED tosVars

TosNext ==
  \/ \E m \in Modes : Open(m)
  \/ Close
  \/ \E count \in Counts : TosRead(count)
  \/ \E data \in Data : TosWrite(data)
  \/ \E origin \in {"set", "cur", "end"}, count \in Seeks : TosSeek(origin, count)
  \/ \E size \in Sizes : Core(ResizeInode(size))
  \/ \E origin \in {"set", "cur", "end"}, count \in Seeks : Core(Seek(origin, count))
  \/ \E data \in Data : Core(Write(data))
  \/ \E count \in Counts : Core(Read(count))

allVars == <<vars, tosVars>>

TosSpec == TosInit /\ [][TosNext]_allVars

-----------------------------------------------------------------------------

\* A file that is open in a mode changes only as the mode says, whatever the
\* file pointer is and however full the drive: to read, not at all; "r+", not
\* its size; "a" without a seek, no byte that was written before.
ChangesAsOpened ==
  [][mode' = mode =>
       /\ mode = "r"  => UNCHANGED <<isize, bytes, written>>
       /\ mode = "r+" => UNCHANGED isize
       /\ Appends(mode) /\ ~moved =>
            \A o \in DOMAIN written : o \in DOMAIN written' /\ written'[o] = written[o]]_allVars

=============================================================================
