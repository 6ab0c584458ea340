---------------------------- MODULE Application ----------------------------
(***************************************************************************)
(* A run of the program: the check that it is the only one, the tickets of *)
(* earlier runs, the games and their loaders, and then what the command    *)
(* line asked for: to clear the cache, to export it or to start a game     *)
(* (core/application.cpp, horizon/switch_ns.cpp, loaders, core/cache.cpp). *)
(*                                                                         *)
(* The directory of tickets and fastnx.tar outlive a run, which may end at *)
(* any step: nobody catches the exceptions the program throws.             *)
(***************************************************************************)
EXTENDS TicketCache, Tarball

CONSTANTS
    Instances,  \* processes
    Games,      \* what GetAllGames may return, as sequences of games
    KeySizes,   \* sizes of the file with the keys
    TicketSize, \* in cells
    CutSize,
    MaxTape     \* bound: an export begins when fastnx.tar has no more cells

\* A game is a file: a package with what is in it by name, or what GetLoaders makes of it.
Other == {"small", "unknown", "diverges", "nopfs"}
Item == [is : {"tik"}, id : Rights, key : Keys] \cup [is : {"nca"}, rights : Rights \cup {None}]
        \cup [is : {"cnmt", "cnmt.xml", "other"}]

Game == [is : Other] \cup [is : {"package"}, files : Seq(Item)]

ASSUME ApplicationAssumption ==
    /\ Games \subseteq Seq(Game)
    /\ KeySizes \subseteq Nat /\ TicketSize \in Nat /\ CutSize \in Nat /\ MaxTape \in Nat

\* The files of a partition are kept by name.
NamesDiffer(files) ==
    \A j, k \in DOMAIN files :
        files[j].is = "tik" /\ files[k].is = "tik" /\ files[j].id = files[k].id => j = k
FileNames == Rights \cup {"keys", "tar"}
ASSUME ExportAssumption == None \notin [file : FileNames, size : Nat, done : Nat]
ASSUME PackageAssumption ==
    \A games \in Games : \A g \in DOMAIN games :
        games[g].is = "package" => NamesDiffer(games[g].files)

VARIABLES
    proc,      \* of each instance: off, begun (/proc has it), looking, inside
    pids,      \* the other instances it has yet to look at
    found,     \* it saw one that runs
    where,     \* what the instance inside is doing
    games,     \* assets->GetAllGames()
    game,      \* GetLoaders: the next file
    isloaded,
    loaders,
    item,      \* SubmissionPackage: the next file, whether it has these
    cnmt, cnmtxml,
    started,   \* the loader of the game that runs
    keysize, tape,
    tarsize,   \* the size of fastnx.tar that GetSizeBySeek keeps, None before it is asked
    offset, included, left,
    copying    \* the file that Include writes, None between files

instanceVars == <<proc, pids, found>>
packageVars == <<item, cnmt, cnmtxml>>
loaderVars == <<games, game, isloaded, loaders, started>>
tarVars == <<keysize, tape, tarsize, offset, included, left, copying>>
vars == <<cacheVars, instanceVars, packageVars, loaderVars, tarVars, where>>

NoSession ==
    /\ games' = <<>> /\ game' = 1 /\ isloaded' = FALSE /\ loaders' = <<>> /\ started' = None
    /\ item' = 1 /\ cnmt' = FALSE /\ cnmtxml' = FALSE
    /\ tarsize' = None /\ offset' = 0 /\ included' = <<>> /\ left' = {} /\ copying' = None
    /\ NoMemory

Init ==
    /\ disk \in [Rights -> {"absent"} \cup Keys]
    /\ filelist = [id \in Rights |-> None] /\ tickets = [id \in Rights |-> None]
    /\ parsed = None /\ exporting = None
    /\ proc = [i \in Instances |-> "off"] /\ found = [i \in Instances |-> FALSE]
    /\ pids = [i \in Instances |-> {}]
    /\ where = "nobody" /\ games = <<>> /\ game = 1 /\ isloaded = FALSE /\ loaders = <<>>
    /\ started = None /\ item = 1 /\ cnmt = FALSE /\ cnmtxml = FALSE
    /\ keysize \in KeySizes /\ tape = None /\ tarsize = None
    /\ offset = 0 /\ included = <<>> /\ left = {} /\ copying = None

-----------------------------------------------------------------------------
(* Instances: Initialize looks through /proc for others.                    *)

\* The program is started.
Begin(i) ==
    /\ proc[i] = "off"
    /\ proc' = [proc EXCEPT ![i] = "begun"]
    /\ UNCHANGED <<cacheVars, pids, found, packageVars, loaderVars, tarVars, where>>

\* (Mistake: only those that came through the check count.)
ListInside(i) == {j \in Instances \ {i} : proc[j] = "inside"}
ListProcs(i) == {j \in Instances \ {i} : proc[j] # "off"}

ListAllTopLevelFiles(i) ==
    /\ proc[i] = "begun"
    /\ proc' = [proc EXCEPT ![i] = "looking"] /\ pids' = [pids EXCEPT ![i] = ListProcs(i)]
    /\ UNCHANGED <<cacheVars, found, packageVars, loaderVars, tarVars, where>>

\* The status of one that ended meanwhile is not there. It passes BufferedFile's test, which
\* gives a missing file a few attempts more, and the read of its first line ends the run: Leave.
ReadStatus(i, j) ==
    /\ proc[i] = "looking" /\ j \in pids[i] /\ proc[j] # "off"
    /\ pids' = [pids EXCEPT ![i] = @ \ {j}]
    /\ found' = [found EXCEPT ![i] = TRUE]
    /\ UNCHANGED <<cacheVars, proc, packageVars, loaderVars, tarVars, where>>

Forget(i) == pids' = [pids EXCEPT ![i] = {}] /\ found' = [found EXCEPT ![i] = FALSE]

\* "More than one instance of FastNx cannot coexist", or somebody ended it.
Leave(i) ==
    /\ proc[i] \in {"begun", "looking"}
    /\ proc' = [proc EXCEPT ![i] = "off"] /\ Forget(i)
    /\ UNCHANGED <<cacheVars, packageVars, loaderVars, tarVars, where>>

\* Assets: the sizes of all files are asked for, and kept.
Enter(i) ==
    /\ proc[i] = "looking" /\ pids[i] = {} /\ ~found[i]
    /\ proc' = [proc EXCEPT ![i] = "inside"]
    /\ where' = "keys" /\ games' \in Games /\ left' = Stored
    /\ tarsize' = IF tape = None THEN None ELSE Len(tape)
    /\ UNCHANGED <<cacheVars, pids, found, packageVars, game, isloaded, loaders, started,
                   keysize, tape, offset, included, copying>>

\* The run ends, here or by an exception, at any step. Files stay as they are.
End(i) ==
    /\ proc[i] = "inside"
    /\ proc' = [proc EXCEPT ![i] = "off"] /\ where' = "nobody"
    /\ tape' = IF tape = None THEN None ELSE Repeat(Old, Len(tape))
    /\ Forget(i) /\ NoSession
    /\ UNCHANGED <<disk, keysize>>

\* A step of the run itself.
Runs == exporting = None /\ UNCHANGED <<instanceVars, keysize>>

-----------------------------------------------------------------------------
(* KeySet and SwitchNs::GetLoaders.                                         *)

\* KeySet: the tickets of the directory, in the order it lists them.
LoadTicket(id) ==
    /\ where = "keys" /\ id \in left /\ Runs
    /\ AddTicket([id |-> id, from |-> "cache", bytes |-> disk[id]])
    /\ left' = left \ {id}
    /\ UNCHANGED <<packageVars, loaderVars, tape, tarsize, offset, included, copying, where>>

TicketsLoaded ==
    /\ where = "keys" /\ left = {} /\ Runs
    /\ where' = "loaders"
    /\ UNCHANGED <<cacheVars, packageVars, loaderVars, tape, tarsize, offset, included, left, copying>>

\* A loader, or the null of a file of no known type, is kept once one was Success.
Push(loader) == IF isloaded THEN Append(loaders, loader) ELSE loaders

\* A file that "diverges in its format and extension" ends the run.
LoadOther ==
    /\ where = "loaders" /\ game <= Len(games) /\ games[game].is \in Other \ {"diverges"} /\ Runs
    /\ loaders' = CASE games[game].is = "small" -> loaders
                    [] games[game].is = "unknown" -> Push(None)
                    [] games[game].is = "nopfs" -> Push([game |-> game, status |-> "PfsNotFound"])
    /\ game' = game + 1
    /\ UNCHANGED <<cacheVars, packageVars, games, isloaded, started, tape, tarsize, offset,
                   included, left, copying, where>>

\* SubmissionPackage begins.
OpenPackage ==
    /\ where = "loaders" /\ game <= Len(games) /\ games[game].is = "package" /\ Runs
    /\ item' = 1 /\ cnmt' = FALSE /\ cnmtxml' = FALSE
    /\ where' = "package"
    /\ UNCHANGED <<cacheVars, loaderVars, tape, tarsize, offset, included, left, copying>>

Package == games[game].files
InLoop == where = "package" /\ item <= Len(Package) /\ (~cnmt \/ ~cnmtxml)

ReadTicket ==
    /\ InLoop /\ Package[item].is = "tik" /\ Runs
    /\ AddTicket([id |-> Package[item].id, from |-> "package", bytes |-> Package[item].key])
    /\ item' = item + 1
    /\ UNCHANGED <<cnmt, cnmtxml, loaderVars, tape, tarsize, offset, included, left, copying, where>>

\* The iterator stays where it is: without the other .cnmt the loop does not end.
ReadContentXml ==
    /\ InLoop /\ Package[item].is = "cnmt.xml" /\ Runs
    /\ cnmtxml' = TRUE
    /\ UNCHANGED <<cacheVars, item, cnmt, loaderVars, tape, tarsize, offset, included, left, copying, where>>

PassItem ==
    /\ InLoop /\ Package[item].is \in {"cnmt", "nca", "other"} /\ Runs
    /\ cnmt' = (cnmt \/ Package[item].is = "cnmt")
    /\ item' = item + 1
    /\ UNCHANGED <<cacheVars, cnmtxml, loaderVars, tape, tarsize, offset, included, left, copying, where>>

\* GetAll, which needs the .cnmt.
EndLoop ==
    /\ where = "package" /\ ~InLoop /\ cnmt /\ Runs
    /\ item' = 1 /\ where' = "contents"
    /\ UNCHANGED <<cacheVars, cnmt, cnmtxml, loaderVars, tape, tarsize, offset, included, left, copying>>

\* ContentArchive: "Required ticket not available" ends the run.
OpenArchive ==
    /\ where = "contents" /\ item <= Len(Package) /\ Runs
    /\ Package[item].is = "nca" /\ Package[item].rights # None => GetTicket(Package[item].rights) # {}
    /\ item' = item + 1
    /\ UNCHANGED <<cacheVars, cnmt, cnmtxml, loaderVars, tape, tarsize, offset, included, left, copying, where>>

\* The loader has Success, and isloaded, which is never reset: with all archives, or
\* with those up to a corrupted one.
Finished ==
    /\ where = "contents" /\ Runs
    /\ item > Len(Package) \/ (item > 1 /\ Package[item - 1].is = "nca")
    /\ isloaded' = TRUE /\ loaders' = Append(loaders, [game |-> game, status |-> "Success"])
    /\ game' = game + 1 /\ item' = 1 /\ where' = "loaders"
    /\ UNCHANGED <<cacheVars, cnmt, cnmtxml, games, started, tape, tarsize, offset, included, left, copying>>

-----------------------------------------------------------------------------
(* LoadFirstPickedGame, ClearCache and ExportCache.                         *)

Loaded == where = "loaders" /\ game > Len(games)

\* LoadApplicationFile: the last loader of the file. A null among them, or none of the file,
\* is used all the same and ends the run, as a status other than Success does.
\* (Mistake: the first of the loaders, which need not be of the first file.)
PickFirst == {l \in DOMAIN loaders : l = 1}
Pick == {l \in DOMAIN loaders : loaders[l].game = 1 /\ \A k \in DOMAIN loaders : loaders[k].game = 1 => k <= l}

LoadFirstPickedGame ==
    /\ Loaded /\ games # <<>> /\ Runs
    /\ None \notin ToSet(loaders)
    /\ \E l \in Pick : loaders[l].status = "Success" /\ started' = loaders[l]
    /\ where' = "started"
    /\ UNCHANGED <<cacheVars, packageVars, games, game, isloaded, loaders, tape, tarsize,
                   offset, included, left, copying>>

ClearCache ==
    /\ Loaded /\ Runs
    /\ RemoveTickets
    /\ where' = "clear"
    /\ UNCHANGED <<packageVars, loaderVars, tape, tarsize, offset, included, left, copying>>

\* DeleteAllFiles.
DeleteNext(id) ==
    /\ where = "clear" /\ ~InUse /\ Runs
    /\ DeleteFile(id)
    /\ UNCHANGED <<packageVars, loaderVars, tape, tarsize, offset, included, left, copying, where>>
Cleared ==
    /\ where = "clear" /\ (InUse \/ Stored = {}) /\ Runs
    /\ where' = "cleared"
    /\ UNCHANGED <<cacheVars, packageVars, loaderVars, tape, tarsize, offset, included, left, copying>>

\* ExportCache: fastnx.tar, which is opened first, is one of the files that are listed.
ExportCache ==
    /\ Loaded /\ Runs
    /\ tape # None => Len(tape) <= MaxTape
    /\ tape' = IF tape = None THEN <<>> ELSE tape
    /\ left' = Stored \cup {"keys", "tar"} /\ included' = <<>> /\ offset' = 0
    /\ where' = "export"
    /\ UNCHANGED <<cacheVars, packageVars, loaderVars, tarsize, copying>>

\* GetSizeBySeek asks for the size of a file once.
TarSize == IF tarsize = None THEN Len(tape) ELSE tarsize
Size(file) ==
    CASE file = "keys" -> keysize
      [] file = "tar" -> TarSize
      [] OTHER -> CASE disk[file] = "empty" -> 0 [] disk[file] = "cut" -> CutSize [] OTHER -> TicketSize

\* Include: the header, with the size GetSizeBySeek keeps for the calls that follow, then
\* the turns of CopyToFile, then the zeros. Each is a write of its own.
IncludeNext(file) ==
    /\ where = "export" /\ copying = None /\ file \in left /\ Runs
    /\ tape' = WriteAt(tape, offset, Tapefile(file, Size(file)))
    /\ offset' = offset + TarBlockSize
    /\ copying' = [file |-> file, size |-> Size(file), done |-> 0]
    /\ left' = left \ {file}
    /\ tarsize' = IF file = "tar" THEN TarSize ELSE tarsize
    /\ UNCHANGED <<cacheVars, packageVars, loaderVars, included, where>>

CopyToFile ==
    /\ where = "export" /\ copying # None /\ Runs
    /\ copying.done < copying.size
    /\ LET n == Turn(copying.done, copying.size)
       IN  /\ tape' = WriteAt(tape, CopyAt(offset, copying.done), Repeat(Data, n))
           /\ copying' = [copying EXCEPT !.done = @ + n]
    /\ UNCHANGED <<cacheVars, packageVars, loaderVars, tarsize, offset, included, left, where>>

WriteZeros ==
    /\ where = "export" /\ copying # None /\ Runs
    /\ copying.done = copying.size
    /\ LET end == offset + copying.size
       IN  /\ tape' = WriteAt(tape, end, Repeat(Zero, ZerosBehind(end)))
           /\ offset' = end + ZerosBehind(end)
    /\ included' = Append(included, [file |-> copying.file, size |-> copying.size])
    /\ copying' = None
    /\ UNCHANGED <<cacheVars, packageVars, loaderVars, tarsize, left, where>>

Exported ==
    /\ where = "export" /\ left = {} /\ copying = None /\ Runs
    /\ tape' = Finish(tape, offset)
    /\ where' = "exported"
    /\ UNCHANGED <<cacheVars, packageVars, loaderVars, tarsize, offset, included, left, copying>>

Export ==
    /\ ExportSignature \/ ExportContent
    /\ UNCHANGED <<instanceVars, packageVars, loaderVars, tarVars, where>>

Scan(i) ==
    \/ Begin(i) \/ ListAllTopLevelFiles(i) \/ Leave(i) \/ Enter(i) \/ End(i)
    \/ \E j \in Instances : ReadStatus(i, j)
Load ==
    \/ \E id \in Rights : LoadTicket(id)
    \/ TicketsLoaded \/ LoadOther \/ OpenPackage \/ ReadTicket \/ ReadContentXml \/ PassItem
    \/ EndLoop \/ OpenArchive \/ Finished \/ Export
Command ==
    \/ LoadFirstPickedGame \/ ClearCache \/ Cleared \/ ExportCache \/ CopyToFile \/ WriteZeros \/ Exported
    \/ \E id \in Rights : DeleteNext(id)
    \/ \E file \in left : IncludeNext(file)

Next == Load \/ Command \/ \E i \in Instances : Scan(i)

Spec == Init /\ [][Next]_vars
-----------------------------------------------------------------------------
(* Properties.                                                              *)

TypeOK ==
    /\ disk \in [Rights -> {"absent", "empty", "cut"} \cup Keys]
    /\ filelist \in [Rights -> {None, "ReadOnly", "ReadWrite"}]
    /\ tickets \in [Rights -> {None} \cup Tickets]
    /\ parsed \in {None} \cup Content /\ exporting \in {None} \cup Files
    /\ proc \in [Instances -> {"off", "begun", "looking", "inside"}]
    /\ pids \in [Instances -> SUBSET Instances] /\ found \in [Instances -> BOOLEAN]
    /\ where = "nobody" <=> \A i \in Instances : proc[i] # "inside"
    /\ games \in Games \cup {<<>>} /\ game \in 1 .. Len(games) + 1
    /\ Len(loaders) < game
    /\ where \in {"package", "contents"} => item \in 1 .. Len(Package) + 1
    /\ tape # None => offset % TarBlockSize = 0

\* Of several instances at most one goes on past the check, however their looks at
\* /proc fall (Application::Initialize: "More than one instance ... cannot coexist").
OneInstance == \A i, j \in Instances : proc[i] = "inside" /\ proc[j] = "inside" => i = j

\* The tickets that SubmissionPackage read from a package decipher its archives, not
\* those an earlier run or another package left under their names (AddTicket). A file
\* that an ended run cut short may hide them; those behind the .cnmt.xml are not read.
FirstXml(k) ==
    /\ k \in DOMAIN Package /\ Package[k].is = "cnmt.xml"
    /\ \A j \in DOMAIN Package : Package[j].is = "cnmt.xml" => k <= j
ReadUpTo == IF cnmtxml THEN CHOOSE k \in DOMAIN Package : FirstXml(k) ELSE Len(Package)
NoneCut == \A id \in Rights : tickets[id] # None => tickets[id].file.bytes \in Keys
OwnTicketDecrypts ==
    where = "contents" /\ NoneCut =>
        \A k \in 1 .. ReadUpTo : Package[k].is = "tik" =>
            LET readable == GetTicket(Package[k].id)
            IN  readable # {} /\ \A t \in readable : t.content.key = Package[k].key

\* When ClearCache is done no ticket is on disk and none is left in the key set whose
\* file was: each is let go before DeleteAllFiles asks who uses it.
ClearRemovesTickets ==
    where = "cleared" =>
        /\ Stored = {}
        /\ \A id \in Rights : tickets[id] # None => tickets[id].file.from = "package"

\* The game that starts is the first of the list and was loaded with success, although
\* isloaded lets the loaders of failed and of unknown files into the list.
FirstGameStarts ==
    where = "started" => started.game = 1 /\ games[1].is = "package"

\* An archive that is finished holds every ticket, the keys and itself, whatever an older
\* export that ended at any step left of fastnx.tar: a reader that passes over blocks of zeros
\* finds each with its size and as many bytes of this export, in their order. (The blocks of zeros are behind files
\* that fill their last block, as fastnx.tar itself may. To a reader that stops there the rest
\* is lost, and "Exports all content", common/main.cpp:42, is not kept.)
Exports == Stored \cup {"keys", "tar"}
ArchiveHoldsAll ==
    where = "exported" =>
        /\ IsPrefix(included, Entries(tape))
        /\ Exports = {included[k].file : k \in DOMAIN included}
=============================================================================
