---------------------------- MODULE TicketCache ----------------------------
(***************************************************************************)
(* The tickets of KeySet (horizon/key_set.cpp) and the directory "tiks"    *)
(* that keeps them from one run of the program to the next.                *)
(*                                                                         *)
(* A ticket file is named by the rights it gives and holds their title key.*)
(* It is written in three parts, and the program may end after any of them.*)
(***************************************************************************)
EXTENDS Integers, Sequences, SequencesExt, FiniteSets

CONSTANTS
    Rights,    \* names of ticket files
    Keys,      \* title keys
    None

Files == [id : Rights, from : {"cache", "package"}, bytes : {"empty", "cut"} \cup Keys]
Content == [rights : Rights, key : Keys]
Tickets == [file : Files, content : {None} \cup Content]

ASSUME TicketAssumption ==
    /\ {"absent", "empty", "cut"} \cap Keys = {}
    /\ None \notin Keys \cup Rights \cup Files \cup Content \cup Tickets

VARIABLES
    disk,      \* the bytes of each file of the directory; a key stands for a whole file
    filelist,  \* the mode of each file that the directory has open
    tickets,   \* KeySet::tickets: the file a ticket came from and what was parsed
    parsed,    \* the content of the last ticket, which the stack may still hold
    exporting  \* the ticket that AddTicket is writing to the directory

cacheVars == <<disk, filelist, tickets, parsed, exporting>>

Stored == {id \in Rights : disk[id] # "absent"}

NoMemory == /\ filelist' = [id \in Rights |-> None]
            /\ tickets' = [id \in Rights |-> None]
            /\ parsed' = None /\ exporting' = None

\* Ticket: of a file that is too short nothing is read, and content is what the stack
\* has: nothing that serves as a ticket, or the ticket parsed before.
Parse(tik) ==
    IF tik.bytes \in Keys THEN {[rights |-> tik.id, key |-> tik.bytes]} ELSE {None, parsed}

\* DirectoryFileAccess::OpenFile: a file is open in one mode at a time.
OpenFile(open, id, mode) == [open EXCEPT ![id] = mode]

\* The ticket of its name came from a file that MatchFiles finds equal.
\* (Mistake: any ticket of the name will do.)
KnownByName(tik) == tickets[tik.id] # None
Known(tik) == tickets[tik.id] # None /\ tickets[tik.id].file.bytes = tik.bytes

Insert(tik, content) == tickets' = [tickets EXCEPT ![tik.id] = [file |-> tik, content |-> content]]

\* AddTicket: a file in the directory stays as it is, even if it differs from tik.
AddTicket(tik) ==
    IF Known(tik) THEN UNCHANGED cacheVars
    ELSE \E content \in Parse(tik) :
        /\ parsed' = content
        /\ IF disk[tik.id] = "absent"
           THEN /\ disk' = [disk EXCEPT ![tik.id] = "empty"]
                /\ filelist' = OpenFile(filelist, tik.id, "ReadWrite")
                /\ exporting' = tik
                /\ UNCHANGED tickets
           ELSE /\ filelist' = OpenFile(filelist, tik.id, "ReadOnly")
                /\ Insert(tik, content)
                /\ UNCHANGED <<disk, exporting>>

\* Ticket::Export: type and signature, then the content, and AddTicket goes on.
ExportSignature ==
    /\ exporting # None /\ disk[exporting.id] = "empty"
    /\ disk' = [disk EXCEPT ![exporting.id] = "cut"]
    /\ UNCHANGED <<filelist, tickets, parsed, exporting>>
ExportContent ==
    /\ exporting # None /\ disk[exporting.id] = "cut"
    /\ disk' = [disk EXCEPT ![exporting.id] = exporting.bytes]
    /\ Insert(exporting, parsed)
    /\ exporting' = None
    /\ UNCHANGED <<filelist, parsed>>

\* GetTicket: the first in the order of a hash map, which may be any.
GetTicket(rights) ==
    {t \in {tickets[id] : id \in Rights} \ {None} : t.content # None /\ t.content.rights = rights}

\* The tickets that hold the very file object the directory has open: KeySet's constructor
\* opened it and nothing has opened it in another mode since.
HoldsOpenFile(id) ==
    tickets[id] # None /\ tickets[id].file.from = "cache" /\ filelist[id] = "ReadOnly"

\* ClearCache gives each file to RemoveTicket, opened as OpenFile opens it by default.
\* (Mistake: as for writing, which is another object.)
RemoveTicketsOpened(mode) ==
    /\ tickets' = [id \in Rights |->
                     IF id \in Stored /\ HoldsOpenFile(id) /\ mode = "ReadOnly" THEN None ELSE tickets[id]]
    /\ filelist' = [id \in Rights |-> IF id \in Stored THEN mode ELSE filelist[id]]
    /\ UNCHANGED <<disk, parsed, exporting>>
RemoveTicketsForWriting == RemoveTicketsOpened("ReadWrite")
RemoveTickets == RemoveTicketsOpened("ReadOnly")

\* DeleteAllFiles refuses while someone else has a file of the list.
InUse == \E id \in Rights : HoldsOpenFile(id)
DeleteFile(id) ==
    /\ id \in Stored
    /\ disk' = [disk EXCEPT ![id] = "absent"]
    /\ filelist' = [filelist EXCEPT ![id] = None]
    /\ UNCHANGED <<tickets, parsed, exporting>>
=============================================================================
