---------------------------- MODULE WriterReload ----------------------------
(***************************************************************************)
(* A writer and a reader of one buffer: the reader may take what Bytes     *)
(* returns at any moment, before the document is finished or after a call  *)
(* has failed, and parses it.                                              *)
(***************************************************************************)
EXTENDS ZenWriter, ZenParser

VARIABLE reading    \* Parse has been called on the buffer

reloadVars == <<writerVars, vars, reading>>
-----------------------------------------------------------------------------
ReloadInit ==
    /\ WriterInit
    /\ reading = FALSE
    /\ input = <<>>
    /\ AtStart

Write ==
    /\ ~reading
    /\ WriterNext
    /\ UNCHANGED <<vars, reading>>

\* Parse(w.Bytes()).
Load ==
    /\ ~reading
    /\ reading' = TRUE
    /\ input' = buf
    /\ UNCHANGED <<writerVars, pos, mode, stack, val>>

Read ==
    /\ reading
    /\ Next
    /\ UNCHANGED <<writerVars, reading>>

ReloadNext == Write \/ Load \/ Read

ReloadSpec == ReloadInit /\ [][ReloadNext]_reloadVars
-----------------------------------------------------------------------------
\* A table Parse can tell from its text: it has a row, and an empty cell is
\* next to a delimiter.
TableReadable ==
    /\ root.val.list # <<>>
    /\ wopts.implicitNull => Len(root.val.list[1].obj) > 1

\* What was streamed to the end parses back to the value the calls described.
StreamReloads ==
    reading /\ root # None /\ (root.byTable => TableReadable) =>
        /\ mode # "reject"
        /\ mode = "accept" => val = root.val

\* The buffer of a document that was cut short, by a failed call or by a caller
\* that stopped, never passes for a shorter document: Parse rejects it.
PartialNeverLoads == reading /\ mode = "accept" => root # None
=============================================================================
