-------------------------------- MODULE Archive --------------------------------
(***************************************************************************)
(* What the zip writer promises its caller (ZipArchive/minizip/HSDzip.h):  *)
(* a handle has one call at a time and one open entry at a time, an entry  *)
(* is opened empty, only grows and is counted once when it is closed, the  *)
(* archive is closed without an open entry, and what it then holds is what *)
(* the next handle that adds to it starts from, also when something was    *)
(* put in front of the archive meanwhile.                                  *)
(***************************************************************************)
EXTENDS Integers

VARIABLES
    handle,   \* there is a zipFile
    call,     \* the call in progress
    entry,    \* how much the entry that is open was given
    entries,  \* how many entries the archive has
    failed,   \* some call of this handle returned an error
    sound     \* nothing got lost that the archive was given

vars == <<handle, call, entry, entries, failed, sound>>

Calls  == {"none", "open", "write", "closeFile", "close"}
NoFile == -1

Init ==
    /\ handle = FALSE
    /\ call = "none"
    /\ entry = NoFile
    /\ entries = 0
    /\ failed = FALSE
    /\ sound \in BOOLEAN

\* A call ends; an error it returns is not forgotten.
Return(f) == call' = "none" /\ f \in {failed, TRUE} /\ failed' = f

-----------------------------------------------------------------------------
(* The handle.                                                             *)

\* CREATE and CREATEAFTER begin an archive, ADDINZIP goes on with one.
Open ==
    /\ ~handle
    /\ handle' = TRUE
    /\ failed' = FALSE
    /\ \/ entries' = 0 /\ sound' = TRUE
       \/ UNCHANGED <<entries, sound>>
    /\ UNCHANGED <<call, entry>>

\* Nothing is promised of an archive after an error or, with zip64 records,
\* behind a stub.
Close ==
    /\ call = "close"
    /\ entry = NoFile
    /\ handle' = FALSE
    /\ Return(failed')
    /\ sound' \in {FALSE, sound /\ ~failed'}
    /\ entries' = entries \/ ~sound'
    /\ UNCHANGED entry

\* The archive is moved inside its file.
Move ==
    /\ ~handle
    /\ sound' \in {FALSE, sound}
    /\ entries' = entries \/ ~sound'
    /\ UNCHANGED <<handle, call, entry, failed>>

-----------------------------------------------------------------------------
(* The entries.                                                            *)

Call ==
    /\ handle /\ call = "none"
    /\ call' \in Calls \ {"none"}
    /\ call' \in {"write", "closeFile"} => entry # NoFile
    /\ IF call' = "write" THEN entry' >= entry ELSE entry' = entry
    /\ UNCHANGED <<handle, entries, failed, sound>>

\* A write or a close without an open entry.
Refused ==
    /\ handle /\ call = "none" /\ entry = NoFile
    /\ Return(TRUE)
    /\ UNCHANGED <<handle, entry, entries, sound>>

\* When an entry cannot be opened none is open.
OpenNewFile ==
    /\ call = "open" /\ entry = NoFile
    /\ Return(failed')
    /\ entry' = 0 \/ (failed' /\ entry' = NoFile)
    /\ UNCHANGED <<handle, entries, sound>>

WriteInFile ==
    /\ call = "write"
    /\ Return(failed')
    /\ UNCHANGED <<handle, entry, entries, sound>>

\* The next entry and the close of the archive close the one that is open;
\* when that fails, the next one is not opened.
CloseFile ==
    /\ call \in {"open", "closeFile", "close"} /\ entry # NoFile
    /\ entry' = NoFile
    /\ entries' = entries + 1
    /\ CASE call = "closeFile" -> Return(failed')
         [] call = "close"     -> UNCHANGED <<call, failed>>
         [] call = "open"      -> UNCHANGED <<call, failed>> \/ Return(TRUE)
    /\ UNCHANGED <<handle, sound>>

\* The zip64 record makes a close forget an error (HSDzip.c:1776).
ForgetError ==
    /\ call = "close" /\ entry = NoFile
    /\ sound' = FALSE
    /\ UNCHANGED <<handle, call, entry, entries, failed>>

Next ==
    \/ Open
    \/ Close
    \/ Move
    \/ Call
    \/ Refused
    \/ OpenNewFile
    \/ WriteInFile
    \/ CloseFile
    \/ ForgetError

Spec == Init /\ [][Next]_vars
=============================================================================
