---------------------------------- MODULE DumpFiles ----------------------------------
(***************************************************************************)
(* The files of analysis/dump.cpp, which data_handler.cpp and              *)
(* utility/file.cpp create and write: one per device, made for the first   *)
(* row of the device.  An event of no device is kept until the next        *)
(* WritePublicEventToFile copies it to every file.                         *)
(*                                                                         *)
(* A row is [id, device, session]: the record it is of, its device or      *)
(* NoDevice and, as history, the session in which it was handed to Dump.   *)
(* Left out: the text of a row and of the header, a write that fails, a    *)
(* statement that the database does not prepare.                           *)
(***************************************************************************)
EXTENDS Sequences

CONSTANTS NoDevice   \* the device "N/A"

\* A Dump is [files, shared]: handlerMap_, sharedEventLists_.
NewDump == [files |-> <<>>, shared |-> <<>>]

\* The directories and the file of a device are made, or one of them cannot be; `writable` are
\* the devices where nothing stands in the way.
CreateFile(d, writable) == d \in writable

\* A handler is never made again, with its file or without.
MakeDataHandler(d, writable) == [open |-> CreateFile(d, writable), rows |-> <<>>]

Write(handler, row) ==
    IF handler.open THEN [handler EXCEPT !.rows = Append(@, row)] ELSE handler

\* The same for a list of rows.
WriteAll(handler, rows) ==
    IF handler.open THEN [handler EXCEPT !.rows = @ \o rows] ELSE handler

WithHandler(dump, d, writable) ==
    IF d \in DOMAIN dump.files THEN dump
    ELSE [dump EXCEPT !.files = [f \in DOMAIN @ \cup {d} |->
              IF f = d THEN MakeDataHandler(d, writable) ELSE @[f]]]

WriteToFile(dump, row, writable) ==
    IF row.device = NoDevice THEN [dump EXCEPT !.shared = Append(@, row)]
    ELSE [WithHandler(dump, row.device, writable) EXCEPT !.files[row.device] = Write(@, row)]

\* Seeded fault: the list is not cleared.
WriteAndKeep(dump) ==
    [dump EXCEPT !.files = [d \in DOMAIN @ |-> WriteAll(@[d], dump.shared)]]

WritePublicEventToFile(dump) ==
    [files  |-> [d \in DOMAIN dump.files |-> WriteAll(dump.files[d], dump.shared)],
     shared |-> <<>>]
====================================================================================
