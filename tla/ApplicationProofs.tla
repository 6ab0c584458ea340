-------------------------- MODULE ApplicationProofs --------------------------
(***************************************************************************)
(* Of a run of the program: one instance goes on at a time, the game that  *)
(* starts is the first, its package's tickets decipher its archives,       *)
(* clearing the cache leaves no ticket, and an exported archive holds all  *)
(* files, whatever an earlier export left. They hold for every number of   *)
(* instances, every list of games and all sizes of files.                  *)
(***************************************************************************)
EXTENDS Application, TLAPS, NaturalsInduction, WellFoundedInduction

\* Of two instances past the list of /proc one has yet to look at the other, or saw it.
Past(i) == proc[i] \in {"looking", "inside"}
Sees(i, j) == proc[i] = "looking" /\ (j \in pids[i] \/ found[i])
InstanceTypes ==
    /\ proc \in [Instances -> {"off", "begun", "looking", "inside"}]
    /\ pids \in [Instances -> SUBSET Instances]
    /\ found \in [Instances -> BOOLEAN]
OneSees == \A i, j \in Instances : i # j /\ Past(i) /\ Past(j) => Sees(i, j) \/ Sees(j, i)
Occupied == where = "nobody" <=> \A i \in Instances : proc[i] # "inside"
InstanceInv == InstanceTypes /\ OneSees /\ Occupied

\* A loader with Success is that of a package.
Loader == {None} \cup [game : Nat, status : {"Success", "PfsNotFound"}]
IsPackage(g) == games[g].is = "package"
LoaderInv ==
    /\ game \in Nat \ {0} /\ loaders \in Seq(Loader)
    /\ where # "nobody" => games \in Games
    /\ where = "nobody" => loaders = <<>> /\ game = 1
    /\ \A l \in 1 .. Len(loaders) :
           loaders[l] # None /\ loaders[l].status = "Success" => IsPackage(loaders[l].game)
    /\ where \in {"package", "contents"} =>
           game <= Len(games) /\ IsPackage(game) /\ item \in Nat \ {0}
    /\ FirstGameStarts

\* A ticket of the directory is the file object the directory has open, and on disk.
FromCache(id) == tickets[id] # None /\ tickets[id].file.from = "cache"
TicketTypes ==
    /\ disk \in [Rights -> {"absent", "empty", "cut"} \cup Keys]
    /\ filelist \in [Rights -> {None, "ReadOnly", "ReadWrite"}]
    /\ tickets \in [Rights -> {None} \cup Tickets]
    /\ parsed \in {None} \cup Content /\ exporting \in {None} \cup Files
HeldOpen == \A id \in Rights : FromCache(id) => filelist[id] = "ReadOnly" /\ disk[id] # "absent"
Exporting == exporting # None => exporting.from = "package"
TicketInv == TicketTypes /\ HeldOpen /\ Exporting
PhaseInv ==
    /\ where \in {"nobody", "keys", "clear", "cleared", "export", "exported"} => exporting = None
    /\ where = "keys" => left \subseteq Stored
    /\ where = "nobody" => \A id \in Rights : tickets[id] = None
    /\ where \in {"clear", "cleared"} => \A id \in Rights : ~FromCache(id)
    /\ where = "cleared" => Stored = {}

-----------------------------------------------------------------------------
(* Instances.                                                               *)

\* All start off.
LEMMA InstanceInit == Init => InstanceInv
BY DEF Init, InstanceInv, InstanceTypes, OneSees, Past, Occupied

\* The steps of the run itself leave the instances alone, and the run goes on.
LEMMA RunsGoOn ==
    ASSUME InstanceInv, Load \/ Command
    PROVE  UNCHANGED instanceVars /\ (where' = "nobody" <=> where = "nobody")
<1>1. CASE Load
  BY <1>1 DEF Load, LoadTicket, TicketsLoaded, LoadOther, OpenPackage, ReadTicket,
     ReadContentXml, PassItem, EndLoop, OpenArchive, Finished, Export, Runs, InLoop
<1>2. CASE Command
  BY <1>2 DEF Command, LoadFirstPickedGame, ClearCache, Cleared, ExportCache, CopyToFile, WriteZeros, Exported,
     DeleteNext, IncludeNext, Loaded, Runs
<1>3. QED BY <1>1, <1>2

\* Each look at /proc keeps the order of who saw whom.
LEMMA InstanceStep == InstanceInv /\ [Next]_vars => InstanceInv'
<1> SUFFICES ASSUME InstanceInv, [Next]_vars PROVE InstanceInv'
  OBVIOUS
<1> USE DEF InstanceInv, InstanceTypes, OneSees, Past, Sees, Occupied
<1>1. CASE Load \/ Command
  BY <1>1, RunsGoOn DEF instanceVars
<1>2. CASE \E i \in Instances : Scan(i)
  <2> PICK i \in Instances : Scan(i)
    BY <1>2
  <2>1. CASE Begin(i)
    BY <2>1 DEF Begin
  <2>2. CASE ListAllTopLevelFiles(i)
    BY <2>2 DEF ListAllTopLevelFiles, ListProcs
  <2>3. CASE Leave(i)
    BY <2>3 DEF Leave, Forget
  <2>4. CASE Enter(i)
    BY <2>4 DEF Enter
  <2>5. CASE End(i)
    <3>1. \A j \in Instances \ {i} : proc[j] # "inside"
      BY <2>5 DEF End
    <3>2. QED BY <2>5, <3>1 DEF End, Forget
  <2>6. CASE \E j \in Instances : ReadStatus(i, j)
    <3> PICK j \in Instances : ReadStatus(i, j)
      BY <2>6
    <3>1. UNCHANGED <<proc, where>> /\ proc[i] = "looking"
      BY DEF ReadStatus
    <3>2. pids' = [pids EXCEPT ![i] = @ \ {j}] /\ found' = [found EXCEPT ![i] = TRUE]
      BY DEF ReadStatus
    <3>3. InstanceTypes'
      BY <3>1, <3>2
    <3>4. found'[i]
      BY <3>2
    <3>5. \A k \in Instances \ {i} : pids'[k] = pids[k] /\ found'[k] = found[k]
      BY <3>2
    <3>6. \A k \in Instances : k \in pids[i] /\ k # j => k \in pids'[i]
      BY <3>2
    <3>7. ASSUME NEW k \in Instances, NEW m \in Instances, Sees(k, m), Past(m)
          PROVE  Sees(k, m)'
      BY <3>1, <3>4, <3>5, <3>6, <3>7
    <3>8. QED BY <3>1, <3>3, <3>7
  <2>7. QED BY <2>1, <2>2, <2>3, <2>4, <2>5, <2>6 DEF Scan
<1>3. CASE UNCHANGED vars
  BY <1>3 DEF vars, instanceVars
<1>4. QED BY <1>1, <1>2, <1>3 DEF Next

\* At most one instance goes on, for any number of them and any interleaving of their
\* looks at /proc: of two, the later one found the earlier one there.
THEOREM SingleInstance == Spec => []OneInstance
<1>1. InstanceInv => OneInstance
  BY DEF InstanceInv, OneSees, Past, Sees, OneInstance
<1>2. QED BY <1>1, InstanceInit, InstanceStep, PTL DEF Spec
-----------------------------------------------------------------------------
(* Loaders.                                                                 *)

\* The files of a package are items, and its tickets have rights and keys.
LEMMA PackageItems ==
    ASSUME LoaderInv, where \in {"package", "contents"}
    PROVE  /\ Package \in Seq(Item) /\ Len(Package) \in Nat /\ DOMAIN Package = 1 .. Len(Package)
           /\ NamesDiffer(Package)
           /\ \A k \in 1 .. Len(Package) : Package[k].is = "tik" =>
                  Package[k].id \in Rights /\ Package[k].key \in Keys
<1>1. games \in Seq(Game) /\ game \in DOMAIN games /\ games[game] \in Game
  BY ApplicationAssumption DEF LoaderInv
<1>2. games[game].is = "package" /\ games[game] \in [is : {"package"}, files : Seq(Item)]
  BY <1>1 DEF Game, Other, LoaderInv, IsPackage
<1>3. Package \in Seq(Item) /\ NamesDiffer(Package)
  BY <1>1, <1>2, PackageAssumption DEF Package, LoaderInv
<1>4. ASSUME NEW k \in 1 .. Len(Package), Package[k].is = "tik"
      PROVE  Package[k].id \in Rights /\ Package[k].key \in Keys
  <2>1. Package[k] \in Item
    BY <1>3, <1>4
  <2>2. QED BY <2>1, <1>4 DEF Item
<1>5. QED BY <1>3, <1>4

\* Nothing is loaded before a run.
LEMMA LoaderInit == Init => LoaderInv
BY DEF Init, LoaderInv, FirstGameStarts

\* A step that leaves the list, the games and what was picked alone, and begins no
\* package, keeps the invariant.
LEMMA LoadersKept ==
    ASSUME LoaderInv, UNCHANGED loaderVars, item' \in {1, item, item + 1},
           where # "nobody", where' # "nobody", where' # "started",
           where' \in {"package", "contents"} => where \in {"package", "contents"}
    PROVE  LoaderInv'
BY DEF LoaderInv, loaderVars, FirstGameStarts, IsPackage

\* A loader more keeps it, if it is that of a package or has no success.
LEMMA LoaderAdded ==
    ASSUME LoaderInv, NEW loader \in Loader,
           loader # None /\ loader.status = "Success" => IsPackage(loader.game),
           loaders' = loaders \/ loaders' = Append(loaders, loader),
           game' = game + 1, games' = games, where # "nobody", where' = "loaders"
    PROVE  LoaderInv'
<1>1. game' \in Nat \ {0} /\ loaders' \in Seq(Loader)
  BY DEF LoaderInv
<1>2. ASSUME NEW l \in 1 .. Len(loaders'), loaders'[l] # None, loaders'[l].status = "Success"
      PROVE  IsPackage(loaders'[l].game)
  BY <1>2 DEF LoaderInv
<1>3. QED BY <1>1, <1>2 DEF LoaderInv, FirstGameStarts, IsPackage

\* Each step of a run keeps the first game's loader that of a package with success.
LEMMA LoaderStep == InstanceInv /\ LoaderInv /\ [Next]_vars => LoaderInv'
<1> SUFFICES ASSUME InstanceInv, LoaderInv, [Next]_vars PROVE LoaderInv'
  OBVIOUS
<1>1. CASE LoadOther
  <2>1. PICK kind \in {"small", "unknown", "nopfs"} : games[game].is = kind
    BY <1>1 DEF LoadOther, Other
  <2> DEFINE loader == IF kind = "unknown" THEN None ELSE [game |-> game, status |-> "PfsNotFound"]
  <2>2. loaders' = loaders \/ loaders' = Append(loaders, loader)
    BY <1>1, <2>1 DEF LoadOther, Push
  <2>3. loader \in Loader
    BY DEF Loader, LoaderInv
  <2>4. loader # None => loader.status # "Success"
    OBVIOUS
  <2>5. game' = game + 1 /\ games' = games /\ where # "nobody" /\ where' = "loaders"
    BY <1>1 DEF LoadOther
  <2> HIDE DEF loader
  <2>6. QED BY <2>2, <2>3, <2>4, <2>5, LoaderAdded
<1>2. CASE Finished
  <2> DEFINE loader == [game |-> game, status |-> "Success"]
  <2>1. loader \in Loader /\ IsPackage(loader.game)
    BY <1>2 DEF Loader, LoaderInv, Finished
  <2>2. loaders' = Append(loaders, loader) /\ game' = game + 1 /\ games' = games
        /\ where # "nobody" /\ where' = "loaders"
    BY <1>2 DEF Finished
  <2> HIDE DEF loader
  <2>3. QED BY <2>1, <2>2, LoaderAdded
<1>3. CASE OpenPackage
  BY <1>3 DEF OpenPackage, LoaderInv, loaderVars, FirstGameStarts, IsPackage
<1>4. CASE LoadFirstPickedGame
  <2>1. PICK l \in Pick : loaders[l].status = "Success" /\ started' = loaders[l]
    BY <1>4 DEF LoadFirstPickedGame
  <2>2. l \in 1 .. Len(loaders) /\ loaders[l].game = 1 /\ loaders[l] # None
    BY <1>4, <2>1 DEF LoadFirstPickedGame, Pick, LoaderInv, ToSet
  <2>3. started'.game = 1 /\ games[1].is = "package"
    BY <2>1, <2>2 DEF LoaderInv, IsPackage
  <2>4. UNCHANGED <<games, game, loaders>> /\ where = "loaders" /\ where' = "started"
    BY <1>4 DEF LoadFirstPickedGame, Loaded
  <2>5. QED BY <2>3, <2>4 DEF LoaderInv, FirstGameStarts, IsPackage
<1>5. CASE \/ \E id \in Rights : LoadTicket(id)
           \/ TicketsLoaded \/ ReadTicket \/ ReadContentXml \/ PassItem \/ EndLoop \/ OpenArchive
  BY <1>5, LoadersKept DEF LoadTicket, TicketsLoaded, ReadTicket, ReadContentXml, PassItem,
     EndLoop, OpenArchive, InLoop, packageVars
<1>6. CASE \/ ClearCache \/ Cleared \/ ExportCache \/ CopyToFile \/ WriteZeros \/ Exported
           \/ \E id \in Rights : DeleteNext(id)
           \/ \E file \in left : IncludeNext(file)
  BY <1>6, LoadersKept DEF ClearCache, Cleared, ExportCache, CopyToFile, WriteZeros, Exported, DeleteNext, IncludeNext,
     Loaded, packageVars
<1>7. CASE Export \/ UNCHANGED vars
  BY <1>7 DEF Export, vars, LoaderInv, loaderVars, packageVars, FirstGameStarts, IsPackage
<1>8. CASE \E i \in Instances : Scan(i)
  <2> PICK i \in Instances : Scan(i)
    BY <1>8
  <2>1. CASE Enter(i)
    <3>1. where = "nobody"
      BY <2>1 DEF Enter, InstanceInv, InstanceTypes, OneSees, Past, Sees, Occupied
    <3>2. QED BY <2>1, <3>1 DEF Enter, LoaderInv, FirstGameStarts
  <2>2. CASE End(i)
    BY <2>2 DEF End, NoSession, LoaderInv, FirstGameStarts
  <2>3. CASE \/ Begin(i) \/ ListAllTopLevelFiles(i) \/ Leave(i)
             \/ \E j \in Instances : ReadStatus(i, j)
    BY <2>3 DEF Begin, ListAllTopLevelFiles, Leave, ReadStatus, LoaderInv, loaderVars,
       packageVars, FirstGameStarts, IsPackage
  <2>4. QED BY <2>1, <2>2, <2>3 DEF Scan
<1>9. QED BY <1>1, <1>2, <1>3, <1>4, <1>5, <1>6, <1>7, <1>8 DEF Next, Load, Command

\* The game that starts is the first of the list, a package that was loaded.
THEOREM FirstGame == Spec => []FirstGameStarts
<1>1. LoaderInv => FirstGameStarts
  BY DEF LoaderInv
<1>2. QED BY <1>1, InstanceInit, InstanceStep, LoaderInit, LoaderStep, PTL DEF Spec
-----------------------------------------------------------------------------
(* Tickets.                                                                 *)

\* A run begins without tickets in memory.
LEMMA TicketInit == Init => TicketInv /\ PhaseInv
BY DEF Init, TicketInv, TicketTypes, HeldOpen, Exporting, FromCache, PhaseInv

\* What AddTicket and Ticket::Export keep is a ticket of a file, parsed or not.
LEMMA AddTicketTypes ==
    ASSUME TicketTypes, NEW tik \in Files, AddTicket(tik)
    PROVE  TicketTypes'
<1> USE TicketAssumption DEF TicketTypes
<1>1. CASE UNCHANGED cacheVars
  BY <1>1 DEF cacheVars
<1>2. CASE ~Known(tik)
  <2>1. tik.id \in Rights /\ Parse(tik) \subseteq {None} \cup Content
    BY DEF Parse, Files, Content
  <2>2. PICK content \in {None} \cup Content :
          /\ parsed' = content
          /\ \/ /\ disk' = [disk EXCEPT ![tik.id] = "empty"]
                /\ filelist' = [filelist EXCEPT ![tik.id] = "ReadWrite"]
                /\ exporting' = tik /\ tickets' = tickets
             \/ /\ filelist' = [filelist EXCEPT ![tik.id] = "ReadOnly"]
                /\ tickets' = [tickets EXCEPT ![tik.id] = [file |-> tik, content |-> content]]
                /\ UNCHANGED <<disk, exporting>>
    BY <1>2, <2>1 DEF AddTicket, OpenFile, Insert
  <2>3. [file |-> tik, content |-> content] \in Tickets
    BY DEF Tickets
  <2>4. QED BY <2>1, <2>2, <2>3
<1>3. QED BY <1>1, <1>2 DEF AddTicket

LEMMA ExportTypes ==
    ASSUME TicketTypes, ExportSignature \/ ExportContent
    PROVE  TicketTypes'
<1> USE DEF TicketTypes
<1>1. exporting \in Files /\ exporting.id \in Rights /\ exporting.bytes \in {"empty", "cut"} \cup Keys
  BY DEF ExportSignature, ExportContent, Files
<1>2. [file |-> exporting, content |-> parsed] \in Tickets
  BY <1>1 DEF Tickets
<1>3. QED BY <1>1, <1>2 DEF ExportSignature, ExportContent, Insert

\* A ticket of a package, or of a file of the directory, that is added leaves every ticket
\* of the directory the file that the directory has open.
LEMMA AddTicketKeeps ==
    ASSUME TicketInv, NEW tik \in Files, AddTicket(tik),
           tik.from = "package" \/ (tik.from = "cache" /\ disk[tik.id] # "absent")
    PROVE  TicketInv' /\ (disk[tik.id] # "absent" => UNCHANGED <<disk, exporting>>)
<1> USE DEF TicketInv, HeldOpen, Exporting, FromCache
<1>0. disk = [id \in Rights |-> disk[id]] /\ filelist = [id \in Rights |-> filelist[id]]
      /\ tickets = [id \in Rights |-> tickets[id]] /\ tik.id \in Rights
  BY DEF TicketTypes, Files
<1>5. TicketTypes'
  BY AddTicketTypes
<1>1. CASE UNCHANGED cacheVars
  BY <1>1, <1>5 DEF cacheVars
<1>2. CASE disk[tik.id] = "absent" /\ ~UNCHANGED cacheVars
  <2>1. /\ disk' = [disk EXCEPT ![tik.id] = "empty"]
        /\ filelist' = [filelist EXCEPT ![tik.id] = "ReadWrite"]
        /\ exporting' = tik /\ tickets' = tickets
    BY <1>2 DEF AddTicket, OpenFile
  <2>2. tik.from = "package"
    BY <1>2
  <2>3. ASSUME NEW id \in Rights, FromCache(id)
        PROVE  filelist'[id] = "ReadOnly" /\ disk'[id] # "absent"
    <3>1. id # tik.id
      BY <1>2, <2>3
    <3>2. QED BY <1>0, <2>1, <2>3, <3>1
  <2>4. QED BY <1>2, <1>5, <2>1, <2>2, <2>3
<1>3. CASE disk[tik.id] # "absent" /\ ~UNCHANGED cacheVars
  <2>1. PICK content \in Parse(tik) :
          /\ disk' = disk /\ exporting' = exporting
          /\ filelist' = [filelist EXCEPT ![tik.id] = "ReadOnly"]
          /\ tickets' = [tickets EXCEPT ![tik.id] = [file |-> tik, content |-> content]]
    BY <1>3 DEF AddTicket, OpenFile, Insert
  <2>2. ASSUME NEW id \in Rights, FromCache(id)'
        PROVE  filelist'[id] = "ReadOnly" /\ disk'[id] # "absent"
    <3>1. CASE id = tik.id
      BY <1>0, <1>3, <2>1, <3>1
    <3>2. CASE id # tik.id
      BY <1>0, <2>1, <2>2, <3>2
    <3>3. QED BY <3>1, <3>2
  <2>3. QED BY <1>5, <2>1, <2>2
<1>4. QED BY <1>1, <1>2, <1>3

\* Writing a package's ticket to the directory touches none of the directory's.
LEMMA ExportKeeps == TicketInv /\ PhaseInv /\ Export => TicketInv' /\ PhaseInv'
<1> SUFFICES ASSUME TicketInv, PhaseInv, Export PROVE TicketInv' /\ PhaseInv'
  OBVIOUS
<1> USE DEF TicketInv, HeldOpen, Exporting, FromCache
<1>0. TicketTypes' /\ exporting' \in {None, exporting}
  BY ExportTypes DEF Export, ExportSignature, ExportContent
<1>1. exporting # None /\ exporting.from = "package" /\ where' = where
  BY DEF Export, ExportSignature, ExportContent
<1>2. where \notin {"nobody", "keys", "clear", "cleared"}
  BY <1>1 DEF PhaseInv
<1>3. CASE ExportSignature
  <2>1. disk' = [disk EXCEPT ![exporting.id] = "cut"] /\ UNCHANGED <<filelist, tickets, exporting>>
    BY <1>3 DEF ExportSignature
  <2>2. \A id \in Rights : disk'[id] # "absent" \/ disk'[id] = disk[id]
    BY <2>1 DEF TicketTypes
  <2>3. QED BY <1>0, <1>1, <1>2, <2>1, <2>2 DEF PhaseInv
<1>4. CASE ExportContent
  <2>1. /\ disk' = [disk EXCEPT ![exporting.id] = exporting.bytes]
        /\ tickets' = [tickets EXCEPT ![exporting.id] = [file |-> exporting, content |-> parsed]]
        /\ filelist' = filelist /\ exporting' = None
    BY <1>4 DEF ExportContent, Insert
  <2>2. ASSUME NEW id \in Rights, FromCache(id)'
        PROVE  FromCache(id) /\ id # exporting.id
    BY <1>1, <2>1, <2>2 DEF TicketTypes
  <2>3. \A id \in Rights : id # exporting.id => disk'[id] = disk[id]
    BY <2>1 DEF TicketTypes
  <2>4. QED BY <1>0, <1>1, <1>2, <2>1, <2>2, <2>3 DEF PhaseInv
<1>5. QED BY <1>3, <1>4 DEF Export

\* The steps that leave the tickets alone keep what holds of them within a phase and from
\* one to the next.
LEMMA TicketsKept ==
    ASSUME TicketInv, PhaseInv, UNCHANGED cacheVars, exporting = None,
           where' \notin {"nobody", "clear", "cleared"}, where' = "keys" => left' \subseteq Stored
    PROVE  TicketInv' /\ PhaseInv'
BY DEF TicketInv, TicketTypes, HeldOpen, Exporting, FromCache, PhaseInv, cacheVars, Stored

\* ClearCache finds every ticket of the directory by its file object.
LEMMA ClearKeeps ==
    ASSUME TicketInv, ClearCache
    PROVE  TicketInv' /\ \A id \in Rights : ~FromCache(id)'
<1> USE DEF TicketInv, TicketTypes, HeldOpen, Exporting, FromCache
<1>1. /\ tickets' = [id \in Rights |-> IF id \in Stored /\ HoldsOpenFile(id) THEN None ELSE tickets[id]]
      /\ filelist' = [id \in Rights |-> IF id \in Stored THEN "ReadOnly" ELSE filelist[id]]
      /\ UNCHANGED <<disk, parsed, exporting>>
  BY DEF ClearCache, RemoveTickets, RemoveTicketsOpened
<1>2. ASSUME NEW id \in Rights PROVE ~FromCache(id)'
  <2>1. FromCache(id) => id \in Stored /\ HoldsOpenFile(id)
    BY DEF Stored, HoldsOpenFile
  <2>2. QED BY <1>1, <2>1
<1>3. TicketTypes'
  BY <1>1
<1>4. QED BY <1>1, <1>2, <1>3

\* Each step keeps what holds of the tickets.
LEMMA TicketStep ==
    InstanceInv /\ LoaderInv /\ TicketInv /\ PhaseInv /\ [Next]_vars => TicketInv' /\ PhaseInv'
<1> SUFFICES ASSUME InstanceInv, LoaderInv, TicketInv, PhaseInv, [Next]_vars
             PROVE  TicketInv' /\ PhaseInv'
  OBVIOUS
<1>1. ASSUME NEW id \in Rights, LoadTicket(id) PROVE TicketInv' /\ PhaseInv'
  <2> DEFINE tik == [id |-> id, from |-> "cache", bytes |-> disk[id]]
  <2>1. AddTicket(tik) /\ where = "keys" /\ where' = "keys" /\ left' \subseteq left /\ id \in left
    BY <1>1 DEF LoadTicket
  <2>2. tik \in Files /\ tik.from = "cache" /\ disk[tik.id] # "absent"
    BY <2>1 DEF PhaseInv, Stored, Files, TicketInv, TicketTypes
  <2> HIDE DEF tik
  <2>3. TicketInv' /\ UNCHANGED <<disk, exporting>>
    BY <2>1, <2>2, AddTicketKeeps
  <2>4. QED BY <2>1, <2>3 DEF PhaseInv, Stored
<1>2. CASE ReadTicket
  <2> DEFINE tik == [id |-> Package[item].id, from |-> "package", bytes |-> Package[item].key]
  <2>1. AddTicket(tik) /\ where = "package" /\ where' = "package"
        /\ item \in 1 .. Len(Package) /\ Package[item].is = "tik"
    BY <1>2, PackageItems DEF ReadTicket, InLoop, LoaderInv
  <2>2. tik \in Files /\ tik.from = "package"
    BY <2>1, PackageItems DEF Files
  <2> HIDE DEF tik
  <2>3. QED BY <2>1, <2>2, AddTicketKeeps DEF PhaseInv
<1>3. CASE TicketsLoaded \/ OpenPackage \/ ReadContentXml \/ PassItem \/ EndLoop \/ OpenArchive
  BY <1>3, TicketsKept DEF TicketsLoaded, OpenPackage, ReadContentXml, PassItem, EndLoop,
     OpenArchive, InLoop, Runs
<1>4. CASE LoadOther \/ Finished \/ LoadFirstPickedGame
  BY <1>4, TicketsKept DEF LoadOther, Finished, LoadFirstPickedGame, Runs
<1>5. CASE \/ ExportCache \/ CopyToFile \/ WriteZeros \/ Exported
           \/ \E file \in left : IncludeNext(file)
  BY <1>5, TicketsKept DEF ExportCache, CopyToFile, WriteZeros, Exported, IncludeNext, Runs
<1>6. CASE Export
  BY <1>6, ExportKeeps
<1>7. CASE ClearCache
  <2>1. where' = "clear" /\ exporting' = None
    BY <1>7 DEF ClearCache, Runs, RemoveTickets, RemoveTicketsOpened
  <2>2. QED BY <1>7, <2>1, ClearKeeps DEF PhaseInv
<1>8. ASSUME NEW id \in Rights, DeleteNext(id) PROVE TicketInv' /\ PhaseInv'
  BY <1>8 DEF DeleteNext, DeleteFile, Runs, PhaseInv, TicketInv, TicketTypes, HeldOpen,
     Exporting, FromCache
<1>9. CASE Cleared
  <2>1. where = "clear" /\ where' = "cleared" /\ UNCHANGED cacheVars
    BY <1>9 DEF Cleared
  <2>2. ~InUse
    BY <2>1 DEF InUse, HoldsOpenFile, PhaseInv, FromCache
  <2>3. Stored = {}
    BY <1>9, <2>2 DEF Cleared
  <2>4. QED BY <2>1, <2>3 DEF PhaseInv, TicketInv, TicketTypes, HeldOpen, Exporting, FromCache,
            Stored, cacheVars
<1>10. CASE \E i \in Instances : Scan(i)
  <2> PICK i \in Instances : Scan(i)
    BY <1>10
  <2>1. CASE Enter(i)
    <3>1. where = "nobody"
      BY <2>1 DEF Enter, InstanceInv, InstanceTypes, OneSees, Past, Sees, Occupied
    <3>2. QED BY <2>1, <3>1, TicketsKept DEF Enter, PhaseInv
  <2>2. CASE End(i)
    BY <2>2 DEF End, NoSession, NoMemory, TicketInv, TicketTypes, HeldOpen, Exporting,
       FromCache, PhaseInv
  <2>3. CASE \/ Begin(i) \/ ListAllTopLevelFiles(i) \/ Leave(i)
             \/ \E j \in Instances : ReadStatus(i, j)
    <3>1. UNCHANGED <<cacheVars, where, left>>
      BY <2>3 DEF Begin, ListAllTopLevelFiles, Leave, ReadStatus, tarVars
    <3>2. QED BY <3>1 DEF cacheVars, TicketInv, TicketTypes, HeldOpen, Exporting, FromCache,
              PhaseInv, Stored
  <2>4. QED BY <2>1, <2>2, <2>3 DEF Scan
<1>11. CASE UNCHANGED vars
  <2>1. UNCHANGED <<cacheVars, where, left>>
    BY <1>11 DEF vars, tarVars
  <2>2. QED BY <2>1 DEF cacheVars, TicketInv, TicketTypes, HeldOpen, Exporting, FromCache,
            PhaseInv, Stored
<1>12. QED BY <1>1, <1>2, <1>3, <1>4, <1>5, <1>6, <1>7, <1>8, <1>9, <1>10, <1>11
          DEF Next, Load, Command

\* After ClearCache no ticket is on disk, and none of the directory in memory, whatever
\* earlier runs and packages left and wherever those runs ended.
THEOREM CacheCleared == Spec => []ClearRemovesTickets
<1>1. TicketInv /\ PhaseInv => ClearRemovesTickets
  <2> SUFFICES ASSUME TicketInv, PhaseInv, where = "cleared"
               PROVE  Stored = {} /\ \A id \in Rights : tickets[id] # None => tickets[id].file.from = "package"
    BY DEF ClearRemovesTickets
  <2>1. \A id \in Rights : tickets[id] # None => tickets[id].file.from \in {"cache", "package"}
    BY DEF TicketInv, TicketTypes, Tickets, Files
  <2>2. QED BY <2>1 DEF PhaseInv, FromCache
<1>2. QED BY <1>1, InstanceInit, InstanceStep, LoaderInit, LoaderStep, TicketInit, TicketStep, PTL DEF Spec
-----------------------------------------------------------------------------
(* The tickets of a package.                                                *)

\* A ticket whose file was whole says what the file does. What was read of the package so
\* far is in the key set, but for a ticket that AddTicket is writing to the directory.
ContentInv ==
    \A id \in Rights : tickets[id] # None /\ tickets[id].file.bytes \in Keys =>
        tickets[id].content = [rights |-> id, key |-> tickets[id].file.bytes]
Held(tik) == tickets[tik.id] # None /\ tickets[tik.id].file.bytes = tik.key
WritesLast ==
    exporting # None =>
        /\ where = "package" /\ item - 1 \in 1 .. Len(Package)
        /\ Package[item - 1].is = "tik"
        /\ exporting.id = Package[item - 1].id /\ exporting.bytes = Package[item - 1].key
        /\ parsed = [rights |-> exporting.id, key |-> exporting.bytes]
ReadSoFar ==
    where = "package" =>
        /\ \A k \in 1 .. Len(Package) : k < item =>
               /\ Package[k].is # "cnmt.xml"
               /\ Package[k].is = "tik" => Held(Package[k]) \/ (exporting # None /\ k = item - 1)
        /\ cnmtxml => item <= Len(Package) /\ Package[item].is = "cnmt.xml"
AllRead ==
    where = "contents" =>
        \E last \in Nat :
            /\ last <= Len(Package)
            /\ IF cnmtxml THEN FirstXml(last) ELSE last = Len(Package)
            /\ \A k \in 1 .. last : Package[k].is = "tik" => Held(Package[k])
PackageInv == WritesLast /\ ReadSoFar /\ AllRead
TicketsInv == InstanceInv /\ LoaderInv /\ TicketInv /\ PhaseInv /\ ContentInv /\ PackageInv

\* Nothing is read before a run.
LEMMA PackageInit == Init => ContentInv /\ PackageInv
BY DEF Init, ContentInv, PackageInv, WritesLast, ReadSoFar, AllRead

\* A file that is added has the content that its bytes say, and other tickets stay.
LEMMA AddedContent ==
    ASSUME TicketTypes, ContentInv, NEW tik \in Files, AddTicket(tik)
    PROVE  /\ ContentInv'
           /\ \A id \in Rights \ {tik.id} : tickets'[id] = tickets[id]
           /\ \/ exporting' = exporting /\ tickets'[tik.id] # None /\ tickets'[tik.id].file.bytes = tik.bytes
              \/ /\ exporting' = tik /\ tickets' = tickets
                 /\ tik.bytes \in Keys => parsed' = [rights |-> tik.id, key |-> tik.bytes]
<1> USE DEF ContentInv
<1>0. tik.id \in Rights /\ tickets = [id \in Rights |-> tickets[id]]
  BY DEF Files, TicketTypes
<1>1. CASE Known(tik)
  BY <1>1 DEF AddTicket, Known, cacheVars
<1>2. CASE ~Known(tik)
  <2>1. PICK content \in Parse(tik) :
          /\ parsed' = content
          /\ IF disk[tik.id] = "absent"
             THEN exporting' = tik /\ tickets' = tickets
             ELSE /\ exporting' = exporting
                  /\ tickets' = [tickets EXCEPT ![tik.id] = [file |-> tik, content |-> content]]
    BY <1>2 DEF AddTicket, Insert
  <2>2. tik.bytes \in Keys => content = [rights |-> tik.id, key |-> tik.bytes]
    BY <2>1 DEF Parse
  <2>3. CASE disk[tik.id] = "absent"
    BY <2>1, <2>2, <2>3
  <2>4. CASE disk[tik.id] # "absent"
    <3>1. tickets'[tik.id] = [file |-> tik, content |-> content]
      BY <1>0, <2>1, <2>4
    <3>2. \A id \in Rights \ {tik.id} : tickets'[id] = tickets[id]
      BY <1>0, <2>1, <2>4
    <3>3. [file |-> tik, content |-> content] # None
      <4>1. content \in {None} \cup Content
        BY <1>0, <2>1 DEF Parse, Content, TicketTypes
      <4>2. QED BY <4>1, TicketAssumption DEF Tickets
    <3>4. exporting' = exporting
      BY <2>1, <2>4
    <3>5. ContentInv'
      BY <2>2, <3>1, <3>2
    <3>6. QED BY <3>1, <3>2, <3>3, <3>4, <3>5
  <2>5. QED BY <2>3, <2>4
<1>3. QED BY <1>1, <1>2

\* Steps outside a package that leave the content of the tickets alone keep it all.
LEMMA OutsidePackage ==
    ASSUME ContentInv, exporting' = None, where' \notin {"package", "contents"},
           \A id \in Rights : tickets'[id] \in {None, tickets[id]}
    PROVE  ContentInv' /\ PackageInv'
BY DEF ContentInv, PackageInv, WritesLast, ReadSoFar, AllRead

\* A ticket of the package goes to the key set, or is on its way there by the directory.
LEMMA ReadTicketKeeps ==
    ASSUME TicketsInv, ReadTicket
    PROVE  ContentInv' /\ PackageInv'
<1> DEFINE tik == [id |-> Package[item].id, from |-> "package", bytes |-> Package[item].key]
<1>1. /\ where = "package" /\ where' = "package" /\ exporting = None
      /\ item \in 1 .. Len(Package) /\ Package[item].is = "tik"
      /\ AddTicket(tik) /\ item' = item + 1 /\ UNCHANGED <<cnmtxml, games, game>>
  BY DEF ReadTicket, InLoop, Runs, loaderVars, TicketsInv, LoaderInv
<1>2. tik \in Files /\ tik.id = Package[item].id /\ tik.bytes = Package[item].key /\ tik.bytes \in Keys
  BY <1>1, PackageItems DEF Files, TicketsInv
<1>3. ~cnmtxml
  BY <1>1 DEF TicketsInv, PackageInv, ReadSoFar
<1>4. Package' = Package /\ Len(Package) \in Nat /\ NamesDiffer(Package)
      /\ DOMAIN Package = 1 .. Len(Package)
  BY <1>1, PackageItems DEF Package, TicketsInv
<1> HIDE DEF tik
<1>5. /\ ContentInv'
      /\ \A id \in Rights \ {tik.id} : tickets'[id] = tickets[id]
      /\ \/ exporting' = exporting /\ tickets'[tik.id] # None /\ tickets'[tik.id].file.bytes = tik.bytes
         \/ exporting' = tik /\ tickets' = tickets /\ parsed' = [rights |-> tik.id, key |-> tik.bytes]
  BY <1>1, <1>2, AddedContent DEF TicketsInv, TicketInv
<1>6. tik # None
  BY <1>2, TicketAssumption
<1>7. ASSUME NEW k \in 1 .. Len(Package), k < item', Package[k].is = "tik"
      PROVE  Held(Package[k])' \/ (exporting' # None /\ k = item' - 1)
  <2>1. CASE k = item
    BY <1>1, <1>2, <1>4, <1>5, <1>6, <2>1 DEF Held
  <2>2. CASE k # item
    <3>1. k < item
      BY <1>1, <1>7, <2>2
    <3>2. Held(Package[k])
      BY <1>1, <1>7, <3>1 DEF TicketsInv, PackageInv, ReadSoFar
    <3>3. Package[k].id \in Rights \ {tik.id}
      BY <1>1, <1>2, <1>4, <1>7, <2>2, PackageItems DEF NamesDiffer, TicketsInv
    <3>4. QED BY <1>4, <1>5, <3>2, <3>3 DEF Held
  <2>3. QED BY <2>1, <2>2
<1>8. WritesLast'
  BY <1>1, <1>2, <1>4, <1>5 DEF WritesLast
<1>9. ReadSoFar'
  <2>1. \A k \in 1 .. Len(Package) : k < item' => Package[k].is # "cnmt.xml"
    BY <1>1, <1>4 DEF TicketsInv, PackageInv, ReadSoFar
  <2>2. QED BY <1>1, <1>3, <1>4, <1>7, <2>1 DEF ReadSoFar
<1>10. QED BY <1>1, <1>5, <1>8, <1>9 DEF PackageInv, AllRead

\* When Ticket::Export is done the ticket is in the key set like the others.
LEMMA ExportDone ==
    ASSUME TicketsInv, Export
    PROVE  ContentInv' /\ PackageInv'
<1> USE DEF TicketsInv
<1>1. exporting # None /\ UNCHANGED <<where, games, game, item, cnmtxml>>
  BY DEF Export, ExportSignature, ExportContent, loaderVars, packageVars
<1>2. where = "package" /\ Package' = Package
  BY <1>1 DEF PackageInv, WritesLast, Package
<1>3. CASE ExportSignature
  <2>1. UNCHANGED <<tickets, exporting, parsed>>
    BY <1>3 DEF ExportSignature
  <2>2. QED BY <1>1, <1>2, <2>1 DEF ContentInv, PackageInv, WritesLast, ReadSoFar, AllRead, Held
<1>4. CASE ExportContent
  <2>1. /\ tickets' = [tickets EXCEPT ![exporting.id] = [file |-> exporting, content |-> parsed]]
        /\ exporting' = None
    BY <1>4 DEF ExportContent, Insert
  <2>2. exporting \in Files /\ exporting.id \in Rights /\ tickets \in [Rights -> {None} \cup Tickets]
        /\ parsed \in {None} \cup Content
    BY <1>1 DEF TicketInv, TicketTypes, Files
  <2>3. tickets'[exporting.id] = [file |-> exporting, content |-> parsed]
    BY <2>1, <2>2
  <2>4. \A id \in Rights \ {exporting.id} : tickets'[id] = tickets[id]
    BY <2>1, <2>2
  <2>5. tickets'[exporting.id] # None
    BY <2>2, <2>3, TicketAssumption DEF Tickets
  <2>6. ContentInv'
    BY <1>1, <2>2, <2>3, <2>4 DEF ContentInv, PackageInv, WritesLast
  <2>7. ASSUME NEW k \in 1 .. Len(Package), k < item, Package[k].is = "tik"
        PROVE  Held(Package[k])'
    <3>1. CASE k = item - 1
      <4>1. exporting.id = Package[k].id /\ exporting.bytes = Package[k].key
        BY <1>1, <3>1 DEF PackageInv, WritesLast
      <4>2. QED BY <1>2, <2>3, <2>5, <4>1 DEF Held
    <3>2. CASE k # item - 1
      <4>1. Held(Package[k])
        BY <1>2, <2>7, <3>2 DEF PackageInv, ReadSoFar
      <4>2. item - 1 \in 1 .. Len(Package) /\ Package[item - 1].is = "tik"
            /\ exporting.id = Package[item - 1].id
        BY <1>1 DEF PackageInv, WritesLast
      <4>3. Package[k].id \in Rights \ {exporting.id}
        BY <1>2, <2>7, <3>2, <4>2, PackageItems DEF NamesDiffer
      <4>4. QED BY <1>2, <2>4, <4>1, <4>3 DEF Held
    <3>3. QED BY <3>1, <3>2
  <2>8. ReadSoFar'
    BY <1>1, <1>2, <2>7 DEF PackageInv, ReadSoFar
  <2>9. QED BY <1>1, <1>2, <2>1, <2>6, <2>8 DEF PackageInv, WritesLast, AllRead
<1>5. QED BY <1>3, <1>4 DEF Export

\* When the loop of SubmissionPackage ends, it went through the tickets up to the
\* .cnmt.xml, or through all.
LEMMA EndLoopKeeps ==
    ASSUME TicketsInv, EndLoop
    PROVE  ContentInv' /\ PackageInv'
<1> USE DEF TicketsInv
<1>1. /\ where = "package" /\ where' = "contents" /\ exporting = None /\ ~InLoop /\ cnmt
      /\ UNCHANGED <<cnmtxml, games, game, tickets, exporting>>
  BY DEF EndLoop, Runs, cacheVars, loaderVars
<1>2. Package' = Package /\ Len(Package) \in Nat /\ item \in Nat \ {0}
  BY <1>1, PackageItems DEF Package, LoaderInv
<1>3. cnmtxml => item \in 1 .. Len(Package) /\ Package[item].is = "cnmt.xml"
  BY <1>1, <1>2 DEF PackageInv, ReadSoFar
<1>4. ~cnmtxml => item > Len(Package)
  BY <1>1, <1>2 DEF InLoop
<1>5. \A k \in 1 .. Len(Package) : k < item =>
          Package[k].is # "cnmt.xml" /\ (Package[k].is = "tik" => Held(Package[k]))
  BY <1>1 DEF PackageInv, ReadSoFar
<1>6. \E last \in Nat :
         /\ last <= Len(Package)
         /\ IF cnmtxml THEN FirstXml(last) ELSE last = Len(Package)
         /\ \A k \in 1 .. last : Package[k].is = "tik" => Held(Package[k])
  <2>0. DOMAIN Package = 1 .. Len(Package)
    BY <1>1, PackageItems
  <2>1. CASE cnmtxml
    <3>1. item \in Nat /\ item <= Len(Package) /\ FirstXml(item)
      BY <1>2, <1>3, <1>5, <2>0, <2>1 DEF FirstXml
    <3>2. \A k \in 1 .. item : Package[k].is = "tik" => Held(Package[k])
      BY <1>2, <1>3, <1>5, <2>1
    <3>3. QED BY <2>1, <3>1, <3>2
  <2>2. CASE ~cnmtxml
    BY <1>2, <1>4, <1>5, <2>2
  <2>3. QED BY <2>1, <2>2
<1>7. AllRead'
  BY <1>1, <1>2, <1>6 DEF AllRead, FirstXml, Held
<1>8. QED BY <1>1, <1>7 DEF ContentInv, PackageInv, WritesLast, ReadSoFar

\* Each step keeps what was read of the package in the key set.
LEMMA PackageStep == TicketsInv /\ [Next]_vars => ContentInv' /\ PackageInv'
<1> SUFFICES ASSUME TicketsInv, [Next]_vars PROVE ContentInv' /\ PackageInv'
  OBVIOUS
<1> USE DEF TicketsInv
<1>1. ASSUME NEW id \in Rights, LoadTicket(id) PROVE ContentInv' /\ PackageInv'
  <2> DEFINE tik == [id |-> id, from |-> "cache", bytes |-> disk[id]]
  <2>1. AddTicket(tik) /\ exporting = None /\ where' = "keys" /\ disk[id] # "absent"
    BY <1>1 DEF LoadTicket, Runs, PhaseInv, Stored
  <2>2. tik \in Files
    BY <2>1 DEF Files, TicketInv, TicketTypes
  <2>3. ContentInv' /\ exporting' = exporting
    <3>1. tik.id = id
      OBVIOUS
    <3> HIDE DEF tik
    <3>2. ContentInv'
      BY <2>1, <2>2, AddedContent DEF TicketInv
    <3>3. exporting' = exporting
      BY <2>1, <3>1 DEF AddTicket, cacheVars
    <3>4. QED BY <3>2, <3>3
  <2>4. QED BY <2>1, <2>3 DEF PackageInv, WritesLast, ReadSoFar, AllRead
<1>2. CASE ReadTicket
  BY <1>2, ReadTicketKeeps
<1>3. CASE OpenPackage
  <2>1. /\ exporting = None /\ UNCHANGED <<tickets, exporting>>
        /\ where' = "package" /\ item' = 1 /\ ~cnmtxml'
    BY <1>3 DEF OpenPackage, Runs, cacheVars
  <2>2. QED BY <2>1 DEF ContentInv, PackageInv, WritesLast, ReadSoFar, AllRead
<1>4. CASE ReadContentXml
  <2>1. /\ exporting = None /\ UNCHANGED <<tickets, exporting, item, games, game, where>>
        /\ where = "package" /\ item <= Len(Package) /\ Package[item].is = "cnmt.xml"
    BY <1>4 DEF ReadContentXml, InLoop, Runs, cacheVars, loaderVars
  <2>2. QED BY <2>1 DEF ContentInv, PackageInv, WritesLast, ReadSoFar, AllRead, Held, Package
<1>5. CASE PassItem
  <2>1. /\ exporting = None /\ UNCHANGED <<tickets, exporting, cnmtxml, games, game, where>>
        /\ where = "package" /\ item <= Len(Package) /\ item' = item + 1
        /\ Package[item].is \notin {"tik", "cnmt.xml"}
    BY <1>5 DEF PassItem, InLoop, Runs, cacheVars, loaderVars
  <2>2. ~cnmtxml /\ item \in Nat /\ Package' = Package
    BY <2>1 DEF PackageInv, ReadSoFar, LoaderInv, Package
  <2>3. ReadSoFar'
    BY <2>1, <2>2 DEF PackageInv, ReadSoFar, Held
  <2>4. QED BY <2>1, <2>3 DEF ContentInv, PackageInv, WritesLast, AllRead
<1>6. CASE EndLoop
  BY <1>6, EndLoopKeeps
<1>7. CASE OpenArchive
  <2>1. /\ exporting = None /\ UNCHANGED <<tickets, exporting, cnmtxml, games, game, where>>
        /\ where = "contents"
    BY <1>7 DEF OpenArchive, Runs, cacheVars, loaderVars
  <2>2. QED BY <2>1 DEF ContentInv, PackageInv, WritesLast, ReadSoFar, AllRead, Held,
            FirstXml, Package
<1>8. CASE Export
  BY <1>8, ExportDone
<1>9. CASE TicketsLoaded \/ LoadOther \/ Finished \/ LoadFirstPickedGame
  BY <1>9, OutsidePackage DEF TicketsLoaded, LoadOther, Finished, LoadFirstPickedGame, Runs, cacheVars
<1>10. CASE \/ Cleared \/ ExportCache \/ CopyToFile \/ WriteZeros \/ Exported
           \/ \E file \in left : IncludeNext(file)
  BY <1>10, OutsidePackage DEF Cleared, ExportCache, CopyToFile, WriteZeros, Exported, IncludeNext, Runs, cacheVars
<1>11. CASE ClearCache \/ \E id \in Rights : DeleteNext(id)
  BY <1>11, OutsidePackage DEF ClearCache, RemoveTickets, RemoveTicketsOpened, DeleteNext,
     DeleteFile, Runs
<1>12. CASE \E i \in Instances : Scan(i)
  <2> PICK i \in Instances : Scan(i)
    BY <1>12
  <2>1. CASE Enter(i)
    <3>1. where = "nobody"
      BY <2>1 DEF Enter, InstanceInv, InstanceTypes, OneSees, Past, Sees, Occupied
    <3>2. QED BY <2>1, <3>1, OutsidePackage DEF Enter, PhaseInv, cacheVars
  <2>2. CASE End(i)
    BY <2>2, OutsidePackage DEF End, NoSession, NoMemory
  <2>3. CASE \/ Begin(i) \/ ListAllTopLevelFiles(i) \/ Leave(i)
             \/ \E j \in Instances : ReadStatus(i, j)
    <3>1. UNCHANGED <<cacheVars, packageVars, loaderVars, where>>
      BY <2>3 DEF Begin, ListAllTopLevelFiles, Leave, ReadStatus
    <3>2. QED BY <3>1 DEF cacheVars, packageVars, loaderVars, ContentInv, PackageInv, WritesLast,
              ReadSoFar, AllRead, Held, FirstXml, Package
  <2>4. QED BY <2>1, <2>2, <2>3 DEF Scan
<1>13. CASE UNCHANGED vars
  BY <1>13 DEF vars, cacheVars, packageVars, loaderVars, ContentInv, PackageInv, WritesLast,
     ReadSoFar, AllRead, Held, FirstXml, Package
<1>14. QED BY <1>1, <1>2, <1>3, <1>4, <1>5, <1>6, <1>7, <1>8, <1>9, <1>10, <1>11, <1>12, <1>13
          DEF Next, Load, Command

\* With whole files in the key set, the ticket found for a name is the one of that file.
LEMMA OneReadable ==
    ASSUME ContentInv, TicketTypes, NoneCut, NEW id \in Rights, NEW key \in Keys,
           tickets[id] # None, tickets[id].file.bytes = key
    PROVE  GetTicket(id) = {tickets[id]} /\ tickets[id].content.key = key
<1>1. \A j \in Rights : tickets[j] # None =>
          tickets[j].content = [rights |-> j, key |-> tickets[j].file.bytes]
  BY DEF ContentInv, NoneCut
<1>2. tickets[id].content = [rights |-> id, key |-> key]
  BY <1>1
<1>3. tickets[id].content # None /\ tickets[id].content.rights = id
  <2>1. tickets[id].content \in Content
    BY <1>2 DEF Content
  <2>2. QED BY <1>2, <2>1, TicketAssumption
<1>4. ASSUME NEW t \in GetTicket(id) PROVE t = tickets[id]
  <2>1. PICK j \in Rights : t = tickets[j] /\ tickets[j] # None /\ tickets[j].content.rights = id
    BY <1>4 DEF GetTicket
  <2>2. tickets[j].content = [rights |-> j, key |-> tickets[j].file.bytes]
    BY <1>1, <2>1
  <2>3. QED BY <2>1, <2>2
<1>5. tickets[id] \in GetTicket(id)
  BY <1>3 DEF GetTicket
<1>6. QED BY <1>2, <1>4, <1>5

\* The archives of a package are opened with the tickets read from it, whatever the
\* directory and other packages left under their names, for all packages and rights.
THEOREM OwnTickets == Spec => []OwnTicketDecrypts
<1>1. TicketsInv => OwnTicketDecrypts
  <2> SUFFICES ASSUME TicketsInv, where = "contents", NoneCut,
                      NEW k \in 1 .. ReadUpTo, Package[k].is = "tik"
               PROVE  LET readable == GetTicket(Package[k].id)
                      IN  readable # {} /\ \A t \in readable : t.content.key = Package[k].key
    BY DEF OwnTicketDecrypts
  <2> USE DEF TicketsInv
  <2>1. /\ Len(Package) \in Nat /\ DOMAIN Package = 1 .. Len(Package) /\ NamesDiffer(Package)
        /\ AllRead
    BY PackageItems DEF PackageInv
  <2>2. k \in 1 .. Len(Package) /\ Held(Package[k])
    <3>1. PICK last \in Nat :
              /\ last <= Len(Package)
              /\ IF cnmtxml THEN FirstXml(last) ELSE last = Len(Package)
              /\ \A l \in 1 .. last : Package[l].is = "tik" => Held(Package[l])
      BY <2>1 DEF AllRead
    <3>2. ReadUpTo = last
      <4>1. \A l \in DOMAIN Package : FirstXml(l) /\ FirstXml(last) => l = last
        BY <2>1 DEF FirstXml
      <4>2. CASE cnmtxml
        <5>1. last \in DOMAIN Package /\ FirstXml(last)
          BY <3>1, <4>2 DEF FirstXml
        <5>2. ReadUpTo \in DOMAIN Package /\ FirstXml(ReadUpTo)
          BY <4>2, <5>1 DEF ReadUpTo
        <5>3. QED BY <4>1, <5>1, <5>2
      <4>3. QED BY <3>1, <4>2 DEF ReadUpTo
    <3>3. k \in 1 .. last
      BY <3>2
    <3>4. k \in 1 .. Len(Package)
      <4>1. last \in Nat /\ last <= Len(Package) /\ Len(Package) \in Nat
        BY <2>1, <3>1
      <4>2. QED BY <3>3, <4>1
    <3>5. QED BY <3>1, <3>3, <3>4
  <2>3. Package[k].id \in Rights /\ Package[k].key \in Keys
    BY <2>2, PackageItems
  <2>4. GetTicket(Package[k].id) = {tickets[Package[k].id]}
        /\ tickets[Package[k].id].content.key = Package[k].key
    BY <2>2, <2>3, OneReadable DEF Held, TicketInv
  <2>5. QED BY <2>4
<1>2. QED BY <1>1, InstanceInit, InstanceStep, LoaderInit, LoaderStep, TicketInit, TicketStep,
          PackageInit, PackageStep, PTL DEF Spec, TicketsInv
-----------------------------------------------------------------------------
(* Types, and where the archive goes on.                                    *)

\* The loop over the games has a loader at most for each it passed, that over the files of
\* a package ends with them, and fastnx.tar is as long as its cells.
IsTape(cells) == Len(cells) \in Nat
GamesInv ==
    /\ where = "nobody" => games = <<>>
    /\ game <= Len(games) + 1 /\ Len(loaders) < game
    /\ where \in {"package", "contents"} => item <= Len(Package) + 1
TapeInv ==
    /\ tape = None \/ IsTape(tape)
    /\ where = "export" => IsTape(tape) /\ left \subseteq FileNames
    /\ tarsize \in {None} \cup Nat /\ keysize \in Nat
    /\ offset \in Nat /\ offset % TarBlockSize = 0
    /\ copying # None => /\ copying \in [file : FileNames, size : Nat, done : Nat]
                         /\ copying.done <= copying.size

LEMMA RepeatIs ==
    ASSUME NEW cell, NEW n \in Nat
    PROVE  /\ Len(Repeat(cell, n)) = n /\ Repeat(cell, n) \in Seq({cell}) /\ IsTape(Repeat(cell, n))
           /\ \A i \in 1 .. n : Repeat(cell, n)[i] = cell
BY DEF Repeat, IsTape

\* Writing makes an archive of an archive.
LEMMA WriteAtIs ==
    ASSUME NEW cells, IsTape(cells), NEW place \in Nat, NEW written, IsTape(written)
    PROVE  IsTape(WriteAt(cells, place, written))
<1> DEFINE end == place + Len(written)
           n == IF end > Len(cells) THEN end ELSE Len(cells)
           value(i) == IF i > place /\ i <= end THEN written[i - place]
                       ELSE IF i <= Len(cells) THEN cells[i] ELSE Zero
<1>1. n \in Nat
  BY DEF IsTape
<1>2. WriteAt(cells, place, written) = [i \in 1 .. n |-> value(i)]
  BY DEF WriteAt
<1> HIDE DEF n, value
<1>3. Len([i \in 1 .. n |-> value(i)]) = n
  BY <1>1
<1>4. QED BY <1>1, <1>2, <1>3 DEF IsTape

\* The next multiple of a size.
LEMMA NextMultiple ==
    ASSUME NEW x \in Nat, NEW size \in Nat \ {0}
    PROVE  x % size \in 0 .. size - 1 /\ (x + size - (x % size)) % size = 0
<1>1. x % size \in 0 .. size - 1
  OBVIOUS
<1>2. (x + size - (x % size)) % size = 0
  OBVIOUS
<1>3. QED BY <1>1, <1>2

\* A multiple of a size leaves the rest of what it is added to.
LEMMA SumRest ==
    ASSUME NEW x \in Nat, NEW y \in Nat, NEW size \in Nat \ {0}, x % size = 0
    PROVE  (x + y) % size = y % size
<1> DEFINE q == x \div size
           p == y \div size
           r == y % size
<1>1. q \in Nat /\ p \in Nat /\ r \in 0 .. size - 1 /\ x = size * q /\ y = size * p + r
  OBVIOUS
<1> HIDE DEF q, p, r
<1>2. size * q + size * p = size * (q + p) /\ q + p \in Nat
  BY <1>1
<1> DEFINE m == q + p
<1>3. x + y = size * m + r
  BY <1>1, <1>2
<1> HIDE DEF m
<1>4. ASSUME NEW n \in Nat PROVE (size * n + r) % size = r
  BY <1>1
<1>5. m \in Nat
  BY <1>2 DEF m
<1>6. QED BY <1>3, <1>4, <1>5 DEF r

\* A sequence behind one more element.
LEMMA ConsIs ==
    ASSUME NEW V, NEW x \in V, NEW n \in Nat, NEW s \in [1 .. n -> V]
    PROVE  <<x>> \o s = [i \in 1 .. n + 1 |-> IF i = 1 THEN x ELSE s[i - 1]]
<1>1. s \in Seq(V) /\ Len(s) = n
  OBVIOUS
<1>2. <<x>> \in Seq(V) /\ Len(<<x>>) = 1 /\ <<x>>[1] = x
  OBVIOUS
<1>3. <<x>> \o s \in Seq(V) /\ Len(<<x>> \o s) = n + 1
  BY <1>1, <1>2
<1>4. ASSUME NEW i \in 1 .. n + 1
      PROVE  (<<x>> \o s)[i] = IF i = 1 THEN x ELSE s[i - 1]
  BY <1>1, <1>2
<1>5. QED BY <1>3, <1>4

\* A header is a block long.
LEMMA TapefileIs ==
    ASSUME NEW file, NEW size \in Nat
    PROVE  /\ Len(Tapefile(file, size)) = TarBlockSize /\ IsTape(Tapefile(file, size))
           /\ Tapefile(file, size)[1] = Header(file, size)
           /\ \A i \in 2 .. TarBlockSize : Tapefile(file, size)[i] = Data
<1> DEFINE head == Header(file, size)
           S == {head, Data}
           n == TarBlockSize - 1
           rest == Repeat(Data, n)
<1>1. n \in Nat /\ n + 1 = TarBlockSize /\ TarBlockSize \in Nat
  BY TarAssumption
<1>2. Tapefile(file, size) = <<head>> \o rest
  BY DEF Tapefile
<1> HIDE DEF n
<1>3. rest = [i \in 1 .. n |-> Data]
  BY DEF Repeat
<1>4. head \in S /\ rest \in [1 .. n -> S]
  BY <1>3
<1> HIDE DEF rest, head, S
<1>5. <<head>> \o rest = [i \in 1 .. n + 1 |-> IF i = 1 THEN head ELSE rest[i - 1]]
  BY <1>1, <1>4, ConsIs
<1> DEFINE cells == [i \in 1 .. n + 1 |-> IF i = 1 THEN head ELSE rest[i - 1]]
<1>6. Len(cells) = n + 1 /\ cells[1] = head
  BY <1>1
<1>7. \A i \in 2 .. n + 1 : cells[i] = Data
  BY <1>1, <1>3
<1> HIDE DEF cells
<1>8. Tapefile(file, size) = cells
  BY <1>2, <1>5 DEF cells
<1>9. QED BY <1>1, <1>6, <1>7, <1>8 DEF IsTape, head

\* A block more is the end of a block again.
LEMMA BlockMore ==
    ASSUME NEW place \in Nat, place % TarBlockSize = 0
    PROVE  place + TarBlockSize \in Nat /\ (place + TarBlockSize) % TarBlockSize = 0
<1> DEFINE T == TarBlockSize
<1>1. T \in Nat \ {0} /\ T % T = 0
  BY TarAssumption
<1>2. place % T = 0
  OBVIOUS
<1> HIDE DEF T
<1>3. (place + T) % T = 0
  BY <1>1, <1>2, SumRest
<1>4. QED BY <1>1, <1>3 DEF T

\* The zeros end a block, of which at least one cell is left for them.
LEMMA ZerosEndBlock ==
    ASSUME NEW end \in Nat
    PROVE  /\ ZerosBehind(end) \in 1 .. TarBlockSize
           /\ end + ZerosBehind(end) \in Nat /\ (end + ZerosBehind(end)) % TarBlockSize = 0
<1> DEFINE T == TarBlockSize
           rest == end % T
<1>1. T \in Nat \ {0}
  BY TarAssumption
<1> HIDE DEF T
<1>2. rest \in 0 .. T - 1 /\ (end + T - rest) % T = 0
  BY <1>1, NextMultiple
<1> HIDE DEF rest
<1>3. T - rest \in 1 .. T /\ end + (T - rest) = end + T - rest
  BY <1>1, <1>2
<1>4. ZerosBehind(end) = T - rest
  BY DEF ZerosBehind, T, rest
<1>5. QED BY <1>1, <1>2, <1>3, <1>4 DEF T

\* A turn of CopyToFile copies something and not too much.
LEMMA TurnIs ==
    ASSUME NEW done \in Nat, NEW size \in Nat, done < size
    PROVE  Turn(done, size) \in Nat \ {0} /\ done + Turn(done, size) <= size
BY TarAssumption DEF Turn

\* Finish writes behind the last file.
LEMMA FinishWhole ==
    ASSUME NEW cells, IsTape(cells), NEW place \in Nat
    PROVE  IsTape(Finish(cells, place))
<1>1. place + TarBlockSize \in Nat /\ place + TarBlockSize + TarBlockSize \in Nat /\ TarBlockSize \in Nat
  BY TarAssumption
<1>2. IsTape(Padding)
  BY <1>1, RepeatIs DEF Padding
<1>3. IsTape(WriteAt(cells, place + TarBlockSize, Padding))
  BY <1>1, <1>2, WriteAtIs
<1>4. QED BY <1>1, <1>2, <1>3, WriteAtIs DEF Finish

LEMMA TypesInit == Init => GamesInv /\ TapeInv
<1> SUFFICES ASSUME Init PROVE GamesInv /\ TapeInv
  OBVIOUS
<1>1. 0 % TarBlockSize = 0
  BY TarAssumption
<1>2. QED BY <1>1, ApplicationAssumption DEF Init, GamesInv, TapeInv

\* The loops over games and files move on by one, and end where the list does.
LEMMA GamesStep == InstanceInv /\ LoaderInv /\ GamesInv /\ [Next]_vars => GamesInv'
<1> SUFFICES ASSUME InstanceInv, LoaderInv, GamesInv, [Next]_vars PROVE GamesInv'
  OBVIOUS
<1>0. /\ game \in Nat \ {0} /\ loaders \in Seq(Loader)
      /\ where # "nobody" => games \in Seq(Game)
  BY ApplicationAssumption DEF LoaderInv
<1>1. CASE LoadOther \/ Finished
  <2>1. PICK loader : loaders' = loaders \/ loaders' = Append(loaders, loader)
    <3>1. CASE LoadOther
      BY <3>1 DEF LoadOther, Push, Other
    <3>2. CASE Finished
      BY <3>2 DEF Finished
    <3>3. QED BY <1>1, <3>1, <3>2
  <2>2. /\ game' = game + 1 /\ games' = games /\ where # "nobody" /\ where' = "loaders"
        /\ game <= Len(games)
    BY <1>1 DEF LoadOther, Finished, LoaderInv
  <2>3. Len(loaders') <= Len(loaders) + 1 /\ Len(loaders) \in Nat /\ Len(loaders') \in Nat
    BY <1>0, <2>1
  <2>4. QED BY <1>0, <2>2, <2>3 DEF GamesInv
<1>2. CASE OpenPackage \/ EndLoop
  <2>1. UNCHANGED loaderVars /\ where # "nobody" /\ item' = 1
        /\ where' \in {"package", "contents"} /\ game <= Len(games) /\ games[game].is = "package"
    BY <1>2 DEF OpenPackage, EndLoop, LoaderInv, IsPackage
  <2>2. games[game] \in [is : {"package"}, files : Seq(Item)]
    BY <1>0, <2>1 DEF Game, Other
  <2>3. Len(Package') \in Nat
    BY <2>1, <2>2 DEF Package, loaderVars
  <2>4. QED BY <2>1, <2>3 DEF GamesInv, loaderVars
<1>3. CASE ReadTicket \/ ReadContentXml \/ PassItem \/ OpenArchive
  <2>1. UNCHANGED <<loaderVars, where>> /\ where \in {"package", "contents"}
        /\ item' \in {item, item + 1} /\ item <= Len(Package)
    BY <1>3 DEF ReadTicket, ReadContentXml, PassItem, OpenArchive, InLoop
  <2>2. Len(Package) \in Nat /\ item \in Nat
    BY <2>1, PackageItems DEF LoaderInv
  <2>3. QED BY <2>1, <2>2 DEF GamesInv, Package, loaderVars
<1>4. CASE \/ \E id \in Rights : LoadTicket(id)
           \/ TicketsLoaded \/ Export
           \/ LoadFirstPickedGame \/ ClearCache \/ Cleared \/ ExportCache \/ CopyToFile \/ WriteZeros \/ Exported
           \/ \E id \in Rights : DeleteNext(id)
           \/ \E file \in left : IncludeNext(file)
           \/ UNCHANGED vars
  <2>1. /\ UNCHANGED <<games, game, loaders, item>>
        /\ where' = where \/ where' \notin {"nobody", "package", "contents"}
    BY <1>4 DEF LoadTicket, TicketsLoaded, Export, LoadFirstPickedGame, ClearCache, Cleared,
       ExportCache, CopyToFile, WriteZeros, Exported, DeleteNext, IncludeNext, vars, loaderVars, packageVars
  <2>2. QED BY <2>1 DEF GamesInv, Package
<1>5. CASE \E i \in Instances : Scan(i)
  <2> PICK i \in Instances : Scan(i)
    BY <1>5
  <2>1. CASE Enter(i)
    <3>1. where = "nobody"
      BY <2>1 DEF Enter, InstanceInv, InstanceTypes, OneSees, Past, Sees, Occupied
    <3>2. games' \in Games /\ where' = "keys" /\ UNCHANGED <<game, loaders>>
      BY <2>1 DEF Enter
    <3>3. game = 1 /\ Len(games') \in Nat
      BY <3>1, <3>2, ApplicationAssumption DEF LoaderInv
    <3>4. QED BY <3>2, <3>3 DEF GamesInv
  <2>2. CASE End(i)
    BY <2>2 DEF End, NoSession, GamesInv
  <2>3. CASE \/ Begin(i) \/ ListAllTopLevelFiles(i) \/ Leave(i)
             \/ \E j \in Instances : ReadStatus(i, j)
    BY <2>3 DEF Begin, ListAllTopLevelFiles, Leave, ReadStatus, GamesInv, Package,
       loaderVars, packageVars
  <2>4. QED BY <2>1, <2>2, <2>3 DEF Scan
<1>6. QED BY <1>1, <1>2, <1>3, <1>4, <1>5 DEF Next, Load, Command

\* An export keeps fastnx.tar an archive and its offset at the end of a block, and every
\* run leaves it to the next one as it is.
LEMMA TapeStep == TapeInv /\ [Next]_vars => TapeInv'
<1> SUFFICES ASSUME TapeInv, [Next]_vars PROVE TapeInv'
  OBVIOUS
<1>1. ASSUME NEW file \in left, IncludeNext(file) PROVE TapeInv'
  <2>1. /\ where = "export" /\ where' = "export" /\ keysize' = keysize /\ IsTape(tape)
        /\ tape' = WriteAt(tape, offset, Tapefile(file, Size(file)))
        /\ offset' = offset + TarBlockSize /\ left' = left \ {file}
        /\ copying' = [file |-> file, size |-> Size(file), done |-> 0]
        /\ tarsize' \in {tarsize, TarSize}
    BY <1>1 DEF IncludeNext, Runs, TapeInv
  <2>2. TarSize \in Nat
    BY <2>1 DEF TarSize, TapeInv, IsTape
  <2>3. Size(file) \in Nat
    BY <2>2, ApplicationAssumption DEF Size, TapeInv
  <2>4. IsTape(tape') /\ offset' \in Nat /\ offset' % TarBlockSize = 0
    BY <2>1, <2>3, TapefileIs, WriteAtIs, BlockMore DEF TapeInv
  <2>5. copying' \in [file : FileNames, size : Nat, done : Nat] /\ copying'.done <= copying'.size
    BY <2>1, <2>3 DEF TapeInv
  <2>6. QED BY <2>1, <2>2, <2>4, <2>5 DEF TapeInv
<1>7. CASE CopyToFile
  <2> DEFINE n == Turn(copying.done, copying.size)
             cells == Repeat(Data, n)
             at == offset + copying.done
  <2>1. /\ where = "export" /\ where' = "export" /\ UNCHANGED <<keysize, tarsize, offset, left>>
        /\ IsTape(tape) /\ copying.done < copying.size /\ left \subseteq FileNames
        /\ tape' = WriteAt(tape, at, cells)
        /\ copying' = [copying EXCEPT !.done = @ + n]
    BY <1>7 DEF CopyToFile, CopyAt, Runs, TapeInv
  <2>2. /\ copying \in [file : FileNames, size : Nat, done : Nat]
        /\ copying.done \in Nat /\ copying.size \in Nat
    BY <1>7 DEF CopyToFile, TapeInv
  <2>3. n \in Nat \ {0} /\ copying.done + n <= copying.size
    BY <2>1, <2>2, TurnIs
  <2> HIDE DEF n
  <2>4. IsTape(cells)
    BY <2>3, RepeatIs
  <2>8. at \in Nat
    BY <2>2 DEF TapeInv
  <2>5. IsTape(tape')
    BY <2>1, <2>4, <2>8, WriteAtIs
  <2>6. copying' \in [file : FileNames, size : Nat, done : Nat] /\ copying'.done <= copying'.size
    BY <2>1, <2>2, <2>3
  <2>7. QED BY <2>1, <2>5, <2>6 DEF TapeInv
<1>8. CASE WriteZeros
  <2> DEFINE end == offset + copying.size
             cells == Repeat(Zero, ZerosBehind(end))
  <2>1. /\ where = "export" /\ where' = "export" /\ UNCHANGED <<keysize, tarsize, left>>
        /\ IsTape(tape) /\ left \subseteq FileNames /\ copying' = None
        /\ tape' = WriteAt(tape, end, cells) /\ offset' = end + ZerosBehind(end)
    BY <1>8 DEF WriteZeros, Runs, TapeInv
  <2>2. end \in Nat
    BY <1>8 DEF WriteZeros, TapeInv
  <2> HIDE DEF end
  <2>3. ZerosBehind(end) \in Nat /\ offset' \in Nat /\ offset' % TarBlockSize = 0
    BY <2>1, <2>2, ZerosEndBlock, TarAssumption
  <2>4. IsTape(cells)
    BY <2>3, RepeatIs
  <2>5. IsTape(tape')
    BY <2>1, <2>2, <2>4, WriteAtIs
  <2>6. QED BY <2>1, <2>3, <2>5 DEF TapeInv
<1>2. CASE Exported
  <2>1. IsTape(tape')
    BY <1>2, FinishWhole DEF Exported, TapeInv
  <2>2. QED BY <1>2, <2>1 DEF Exported, Runs, TapeInv
<1>3. CASE ExportCache
  <2>1. /\ UNCHANGED <<tarsize, keysize, copying>> /\ IsTape(tape') /\ offset' = 0
        /\ left' \subseteq FileNames
    BY <1>3 DEF ExportCache, Runs, TapeInv, IsTape, Stored, FileNames
  <2>2. 0 % TarBlockSize = 0
    BY TarAssumption
  <2>3. QED BY <2>1, <2>2 DEF TapeInv
<1>4. CASE Load \/ LoadFirstPickedGame \/ ClearCache \/ Cleared \/ (\E id \in Rights : DeleteNext(id))
           \/ UNCHANGED vars
  <2>1. UNCHANGED <<keysize, tape, tarsize, offset, copying>>
    BY <1>4 DEF Load, LoadTicket, TicketsLoaded, LoadOther, OpenPackage, ReadTicket,
       ReadContentXml, PassItem, EndLoop, OpenArchive, Finished, Export, LoadFirstPickedGame,
       ClearCache, Cleared, DeleteNext, Runs, vars, tarVars
  <2>2. where' = "export" => where = "export" /\ left' = left
    BY <1>4 DEF Load, LoadTicket, TicketsLoaded, LoadOther, OpenPackage, ReadTicket,
       ReadContentXml, PassItem, EndLoop, OpenArchive, Finished, Export, LoadFirstPickedGame,
       ClearCache, Cleared, DeleteNext, vars, tarVars
  <2>3. QED BY <2>1, <2>2 DEF TapeInv
<1>5. CASE \E i \in Instances : Scan(i)
  <2> PICK i \in Instances : Scan(i)
    BY <1>5
  <2>1. CASE Enter(i)
    BY <2>1 DEF Enter, TapeInv, IsTape
  <2>2. CASE End(i)
    <3>1. tape' = None \/ IsTape(tape')
      BY <2>2, RepeatIs DEF End, TapeInv, IsTape
    <3>2. 0 % TarBlockSize = 0
      BY TarAssumption
    <3>3. QED BY <2>2, <3>1, <3>2 DEF End, NoSession, TapeInv
  <2>3. CASE \/ Begin(i) \/ ListAllTopLevelFiles(i) \/ Leave(i)
             \/ \E j \in Instances : ReadStatus(i, j)
    BY <2>3 DEF Begin, ListAllTopLevelFiles, Leave, ReadStatus, TapeInv, tarVars
  <2>4. QED BY <2>1, <2>2, <2>3 DEF Scan
<1>6. QED BY <1>1, <1>2, <1>3, <1>4, <1>5, <1>7, <1>8 DEF Next, Command

\* The types of a run, for all games and packages: among them that no more loaders are kept
\* than files were opened, and that a file is included where a block of the archive begins.
THEOREM TypeCorrect == Spec => []TypeOK
<1>1. InstanceInv /\ LoaderInv /\ TicketInv /\ GamesInv /\ TapeInv => TypeOK
  <2> SUFFICES ASSUME InstanceInv, LoaderInv, TicketInv, GamesInv, TapeInv PROVE TypeOK
    OBVIOUS
  <2>1. games \in Games \cup {<<>>} /\ Len(games) \in Nat
    BY ApplicationAssumption DEF LoaderInv, GamesInv
  <2>2. game \in 1 .. Len(games) + 1 /\ Len(loaders) < game
    BY <2>1 DEF LoaderInv, GamesInv
  <2>3. where \in {"package", "contents"} => item \in 1 .. Len(Package) + 1
    BY PackageItems DEF LoaderInv, GamesInv
  <2>4. QED BY <2>1, <2>2, <2>3 DEF TypeOK, InstanceInv, InstanceTypes, Occupied, TicketInv,
            TicketTypes, TapeInv
<1>2. QED BY <1>1, InstanceInit, InstanceStep, LoaderInit, LoaderStep, TicketInit, TicketStep,
          TypesInit, GamesStep, TapeStep, PTL DEF Spec
-----------------------------------------------------------------------------
(* What a reader of the archive finds.                                      *)

LEMMA Smallest ==
    ASSUME NEW S, S \subseteq Nat, S # {}
    PROVE  \E s \in S : \A t \in S : s <= t
<1>1. PICK s \in S : \A y \in S : <<y, s>> \notin OpToRel(<, Nat)
  BY NatLessThanWellFounded, WFMin
<1>2. ASSUME NEW y \in S PROVE ~(y < s)
  <2>1. <<y, s>> \in Nat \X Nat /\ <<y, s>>[1] = y /\ <<y, s>>[2] = s
    OBVIOUS
  <2>2. y < s => <<y, s>>[1] < <<y, s>>[2]
    BY <2>1
  <2>3. <<y, s>>[1] < <<y, s>>[2] => <<y, s>> \in OpToRel(<, Nat)
    BY <2>1, Zenon DEF OpToRel
  <2>4. QED BY <1>1, <2>2, <2>3
<1>3. QED BY <1>2

\* Induction with the statement as a set: one that has 0 and with every number the next has them all.
LEMMA Induction ==
    ASSUME NEW T, 0 \in T, \A n \in Nat : n \in T => n + 1 \in T
    PROVE  \A n \in Nat : n \in T
<1> DEFINE rest == {n \in Nat : n \notin T}
<1>1. SUFFICES ASSUME rest # {} PROVE FALSE
  OBVIOUS
<1>2. PICK s \in rest : \A t \in rest : s <= t
  BY <1>1, Smallest
<1>3. s \in Nat \ {0} /\ s - 1 \in Nat
  OBVIOUS
<1>4. s - 1 \notin rest
  BY <1>2, <1>3
<1>5. s - 1 \in T
  BY <1>3, <1>4
<1>6. (s - 1) + 1 \in T
  BY <1>3, <1>5
<1>7. (s - 1) + 1 = s
  BY <1>3
<1>8. QED BY <1>6, <1>7

\* A header is read as one, and the offset goes on behind its blocks.
HeadersInv(cells) ==
    \A i \in 1 .. Len(cells) : cells[i].is = "header" => cells[i].size \in Nat
Whole(cells) == IsTape(cells) /\ HeadersInv(cells)

EntriesOf(cells) == {[file |-> cells[i].file, size |-> cells[i].size] : i \in 1 .. Len(cells)}
Behind(cells, at) == at + TarBlockSize + Blocks(cells[at + 1].size)
Found(cells, list, at) ==
    IF at + TarBlockSize > Len(cells) THEN <<>>
    ELSE IF IsZeros(cells, at) THEN list[at + TarBlockSize]
    ELSE IF IsFile(cells, at)
    THEN <<[file |-> cells[at + 1].file, size |-> cells[at + 1].size]>> \o list[Behind(cells, at)]
    ELSE <<>>

LEMMA BlocksIs ==
    ASSUME NEW size \in Nat
    PROVE  /\ Blocks(size) \in Nat
           /\ size % TarBlockSize = 0 => Blocks(size) = size
           /\ size % TarBlockSize # 0 => Blocks(size) = size + TarBlockSize - (size % TarBlockSize)
<1> DEFINE T == TarBlockSize
           q == size \div T
           r == size % T
<1>1. T \in Nat \ {0}
  BY TarAssumption
<1> HIDE DEF T
<1>2. q \in Nat /\ r \in 0 .. T - 1 /\ size = T * q + r
  BY <1>1
<1>3. ASSUME r = 0 PROVE (size + T - 1) \div T = q
  BY <1>1, <1>2, <1>3
<1>4. ASSUME r # 0 PROVE (size + T - 1) \div T = q + 1
  BY <1>1, <1>2, <1>4
<1> HIDE DEF q, r
<1>5. T * (q + 1) = T * q + T /\ T * q \in Nat /\ T * (q + 1) \in Nat
  BY <1>1, <1>2
<1>6. QED BY <1>1, <1>2, <1>3, <1>4, <1>5 DEF Blocks, T, r

\* A header leads the reader on.
LEMMA BehindIs ==
    ASSUME NEW cells, Whole(cells), NEW at \in Nat, at + TarBlockSize <= Len(cells), IsFile(cells, at)
    PROVE  /\ Behind(cells, at) \in Nat /\ Behind(cells, at) > at
           /\ [file |-> cells[at + 1].file, size |-> cells[at + 1].size] \in EntriesOf(cells)
<1>1. TarBlockSize \in Nat \ {0} /\ Len(cells) \in Nat
  BY TarAssumption DEF Whole, IsTape
<1>2. at + 1 \in 1 .. Len(cells)
  BY <1>1
<1>3. cells[at + 1].size \in Nat
  BY <1>2 DEF IsFile, HeadersInv, Whole
<1> DEFINE blocks == Blocks(cells[at + 1].size)
<1>4. blocks \in Nat
  BY <1>3, BlocksIs
<1>5. Behind(cells, at) = at + TarBlockSize + blocks
  BY DEF Behind
<1> HIDE DEF blocks
<1>6. QED BY <1>1, <1>2, <1>4, <1>5 DEF EntriesOf

\* The reader is defined: every header and every block of zeros leads it on, so that it ends
\* with the tape.
LEMMA ReaderIs ==
    ASSUME NEW cells, Whole(cells)
    PROVE  \E list : /\ Entries(cells) = list[0]
                     /\ \A at \in Nat : list[at] = Found(cells, list, at)
                     /\ \A at \in Nat : list[at] \in Seq(EntriesOf(cells))
<1> DEFINE Right(list, n) ==
               /\ list = [at \in Nat |-> list[at]]
               /\ \A at \in Nat : at + n >= Len(cells) => list[at] = Found(cells, list, at)
           T == {n \in Nat : \E list : Right(list, n)}
<1>1. Len(cells) \in Nat /\ TarBlockSize \in Nat \ {0}
  BY TarAssumption DEF IsTape, Whole
<1>2. ASSUME NEW at \in Nat, at + TarBlockSize <= Len(cells), IsFile(cells, at)
      PROVE  Behind(cells, at) \in Nat /\ Behind(cells, at) > at
  BY <1>2, BehindIs
<1>3. 0 \in T
  <2> DEFINE none == [at \in Nat |-> <<>>]
  <2>1. \A at \in Nat : at + 0 >= Len(cells) => at + TarBlockSize > Len(cells)
    BY <1>1
  <2>2. \A at \in Nat : at + 0 >= Len(cells) => Found(cells, none, at) = <<>>
    BY <2>1 DEF Found
  <2>3. Right(none, 0)
    BY <2>2
  <2>4. QED BY <2>3
<1>4. ASSUME NEW n \in Nat, n \in T PROVE n + 1 \in T
  <2>1. PICK list : Right(list, n)
    BY <1>4
  <2> DEFINE next == [at \in Nat |-> IF at + n >= Len(cells) THEN list[at] ELSE Found(cells, list, at)]
  <2>2. next = [at \in Nat |-> next[at]]
    OBVIOUS
  <2>3. ASSUME NEW at \in Nat, at + (n + 1) >= Len(cells) PROVE next[at] = Found(cells, list, at)
    BY <2>1
  <2>7. \A at \in Nat : at + n >= Len(cells) => next[at] = list[at]
    OBVIOUS
  <2> HIDE DEF next
  <2>4. ASSUME NEW at \in Nat, at + (n + 1) >= Len(cells)
        PROVE  Found(cells, next, at) = Found(cells, list, at)
    <3>1. at + TarBlockSize \in Nat /\ (at + TarBlockSize) + n >= Len(cells)
      BY <1>1, <2>4
    <3>2. next[at + TarBlockSize] = list[at + TarBlockSize]
      BY <2>7, <3>1
    <3>3. CASE at + TarBlockSize <= Len(cells) /\ IsFile(cells, at)
      <4> DEFINE there == Behind(cells, at)
      <4>1. there \in Nat /\ there > at
        BY <1>2, <3>3
      <4> HIDE DEF there
      <4>2. there + n >= Len(cells)
        BY <1>1, <2>4, <4>1
      <4>3. next[there] = list[there]
        BY <2>7, <4>1, <4>2
      <4>4. QED BY <3>2, <4>3 DEF Found, there
    <3>4. CASE ~(at + TarBlockSize <= Len(cells))
      <4>1. at + TarBlockSize > Len(cells)
        BY <1>1, <3>1, <3>4
      <4>2. QED BY <4>1 DEF Found
    <3>5. CASE ~IsFile(cells, at)
      BY <3>2, <3>5 DEF Found
    <3>6. QED BY <3>3, <3>4, <3>5
  <2>5. Right(next, n + 1)
    BY <2>2, <2>3, <2>4
  <2>6. QED BY <2>5
<1>5. \E list : Right(list, Len(cells))
  <2> HIDE DEF T
  <2>1. Len(cells) \in T
    BY <1>1, <1>3, <1>4, Induction
  <2>2. QED BY <2>1 DEF T
<1>6. PICK list : Right(list, Len(cells))
  BY <1>5
<1>7. list = [at \in Nat |-> list[at]] /\ \A at \in Nat : list[at] = Found(cells, list, at)
  BY <1>1, <1>6
<1> HIDE DEF Right, T
<1> DEFINE Reads(f) == f = [at \in Nat |->
               IF at + TarBlockSize > Len(cells) THEN <<>>
               ELSE IF IsZeros(cells, at) THEN f[at + TarBlockSize]
               ELSE IF IsFile(cells, at)
               THEN LET cell == cells[at + 1]
                    IN  <<[file |-> cell.file, size |-> cell.size]>>
                            \o f[at + TarBlockSize + Blocks(cell.size)]
               ELSE <<>>]
<1>8. Reads(list)
  BY <1>7 DEF Found, Behind
<1>9. Entries(cells) = (CHOOSE f : Reads(f))[0]
  BY DEF Entries
<1> DEFINE from == CHOOSE f : Reads(f)
<1>10. Reads(from)
  <2> HIDE DEF Reads
  <2>1. QED BY <1>8
<1> HIDE DEF from
<1>11. ASSUME NEW at \in Nat PROVE from[at] = Found(cells, from, at)
  BY <1>10 DEF Found, Behind
<1>12. Entries(cells) = from[0]
  BY <1>9 DEF from
<1> HIDE DEF Reads
<1> DEFINE S == Seq(EntriesOf(cells))
           U == {n \in Nat : \A at \in Nat : at + n >= Len(cells) => from[at] \in S}
<1>13. 0 \in U
  <2>1. ASSUME NEW at \in Nat, at + 0 >= Len(cells) PROVE from[at] = <<>>
    <3>1. at + TarBlockSize > Len(cells)
      BY <1>1, <2>1
    <3>2. QED BY <1>11, <3>1 DEF Found
  <2>2. <<>> \in S
    OBVIOUS
  <2> HIDE DEF S
  <2>3. QED BY <2>1, <2>2
<1>14. ASSUME NEW n \in Nat, n \in U PROVE n + 1 \in U
  <2>1. ASSUME NEW at \in Nat, at + (n + 1) >= Len(cells) PROVE from[at] \in S
    <3>1. at + TarBlockSize \in Nat /\ (at + TarBlockSize) + n >= Len(cells)
      BY <1>1, <2>1
    <3>2. from[at + TarBlockSize] \in S
      BY <1>14, <3>1
    <3>3. CASE at + TarBlockSize <= Len(cells) /\ IsFile(cells, at)
      <4> DEFINE there == Behind(cells, at)
                 entry == [file |-> cells[at + 1].file, size |-> cells[at + 1].size]
      <4>1. there \in Nat /\ there > at /\ entry \in EntriesOf(cells)
        BY <3>3, BehindIs
      <4>2. Found(cells, from, at) \in {<<>>, from[at + TarBlockSize], <<entry>> \o from[there]}
        BY DEF Found
      <4> HIDE DEF there, entry
      <4>3. there + n >= Len(cells)
        BY <1>1, <2>1, <4>1
      <4>4. from[there] \in S
        BY <1>14, <4>1, <4>3
      <4>5. <<entry>> \o from[there] \in S
        <5> DEFINE E == EntriesOf(cells)
                   tail == from[there]
        <5>1. tail \in Seq(E) /\ entry \in E
          BY <4>1, <4>4
        <5> HIDE DEF E, tail
        <5>2. <<entry>> \o tail \in Seq(E)
          BY <5>1
        <5>3. QED BY <5>2 DEF E, tail
      <4>6. <<>> \in S
        OBVIOUS
      <4>7. from[at] = Found(cells, from, at)
        BY <1>11
      <4> HIDE DEF S
      <4>8. QED BY <3>2, <4>2, <4>5, <4>6, <4>7
    <3>4. CASE ~(at + TarBlockSize <= Len(cells) /\ IsFile(cells, at))
      <4> DEFINE there == from[at + TarBlockSize]
      <4>4. at + TarBlockSize > Len(cells) \/ ~IsFile(cells, at)
        BY <1>1, <3>1, <3>4
      <4>5. Found(cells, from, at) \in {<<>>, there}
        BY <4>4 DEF Found
      <4>1. from[at] \in {<<>>, there}
        BY <1>11, <4>5
      <4>2. <<>> \in S
        OBVIOUS
      <4>3. QED BY <3>2, <4>1, <4>2
    <3>5. QED BY <3>3, <3>4
  <2> HIDE DEF S
  <2>2. QED BY <2>1
<1>15. ASSUME NEW at \in Nat PROVE from[at] \in S
  <2> HIDE DEF U, S
  <2>1. Len(cells) \in U
    BY <1>1, <1>13, <1>14, Induction
  <2>2. at + Len(cells) >= Len(cells)
    BY <1>1
  <2>3. QED BY <1>1, <2>1, <2>2 DEF U
<1>16. QED BY <1>11, <1>12, <1>15

\* A file on tape: its header, its content, and a block of zeros if it fills its last block.
\* It ends behind the zeros.
FileAt(cells, at, file, size) ==
    /\ cells[at + 1] = Header(file, size)
    /\ \A i \in 1 .. size : cells[at + TarBlockSize + i] = Data
    /\ size % TarBlockSize = 0 =>
           \A i \in 1 .. TarBlockSize : cells[at + TarBlockSize + size + i] = Zero
EndOf(at, size) == at + TarBlockSize + size + (TarBlockSize - (size % TarBlockSize))

LEMMA EndIs ==
    ASSUME NEW at \in Nat, NEW size \in Nat
    PROVE  /\ EndOf(at, size) \in Nat /\ at + TarBlockSize + size < EndOf(at, size)
           /\ size % TarBlockSize = 0 => EndOf(at, size) = at + TarBlockSize + size + TarBlockSize
<1> DEFINE T == TarBlockSize
           rest == size % T
<1>1. T \in Nat \ {0}
  BY TarAssumption
<1>2. rest \in 0 .. T - 1
  <2> HIDE DEF T
  <2>1. QED BY <1>1, NextMultiple
<1>3. EndOf(at, size) = at + T + size + (T - rest)
  BY DEF EndOf
<1> HIDE DEF T, rest
<1>4. /\ at + T + size + (T - rest) \in Nat /\ at + T + size < at + T + size + (T - rest)
      /\ rest = 0 => at + T + size + (T - rest) = at + T + size + T
  BY <1>1, <1>2
<1>5. QED BY <1>3, <1>4 DEF T, rest

\* A reader that comes to a file goes on behind it.
LEMMA ReadsFile ==
    ASSUME NEW cells, Whole(cells), NEW list, \A at \in Nat : list[at] = Found(cells, list, at),
           NEW at \in Nat, NEW file, NEW size \in Nat, FileAt(cells, at, file, size),
           EndOf(at, size) <= Len(cells)
    PROVE  /\ list[at] = <<[file |-> file, size |-> size]>> \o list[EndOf(at, size)]
           /\ [file |-> file, size |-> size] \in EntriesOf(cells)
<1> DEFINE end == EndOf(at, size)
           body == at + TarBlockSize + size
<1>1. TarBlockSize \in Nat \ {0} /\ Len(cells) \in Nat
  BY TarAssumption DEF Whole, IsTape
<1>2. end \in Nat /\ body < end /\ (size % TarBlockSize = 0 => end = body + TarBlockSize)
  BY EndIs
<1>3. end <= Len(cells)
  OBVIOUS
<1> HIDE DEF end
<1>4. /\ at + TarBlockSize <= Len(cells) /\ ~(at + TarBlockSize > Len(cells))
      /\ body \in Nat /\ body <= Len(cells) /\ at + 1 \in 1 .. Len(cells)
  BY <1>1, <1>2, <1>3
<1>5. /\ cells[at + 1] # Zero /\ cells[at + 1].is = "header"
      /\ cells[at + 1].file = file /\ cells[at + 1].size = size
  <2>1. cells[at + 1] = Header(file, size)
    BY DEF FileAt
  <2>2. QED BY <2>1 DEF Header, Zero
<1>6. ~IsZeros(cells, at)
  BY <1>1, <1>5 DEF IsZeros
<1>7. IsFile(cells, at)
  BY <1>4, <1>5 DEF IsFile, FileAt
<1>8. list[at] = <<[file |-> file, size |-> size]>> \o list[at + TarBlockSize + Blocks(size)]
  BY <1>4, <1>5, <1>6, <1>7 DEF Found, Behind
<1>9. list[at + TarBlockSize + Blocks(size)] = list[end]
  <2>1. CASE size % TarBlockSize = 0
    <3>1. at + TarBlockSize + Blocks(size) = body
      BY <2>1, BlocksIs
    <3>2. IsZeros(cells, body)
      BY <2>1 DEF IsZeros, FileAt
    <3> HIDE DEF body
    <3>3. ~(body + TarBlockSize > Len(cells)) /\ body + TarBlockSize = end
      BY <1>1, <1>2, <1>3, <1>4, <2>1
    <3>4. list[body] = list[body + TarBlockSize]
      BY <1>4, <3>2, <3>3 DEF Found
    <3>5. QED BY <3>1, <3>3, <3>4
  <2>2. CASE size % TarBlockSize # 0
    <3> DEFINE rest == size % TarBlockSize
               blocks == Blocks(size)
    <3>1. blocks = size + TarBlockSize - rest
      BY <2>2, BlocksIs
    <3>2. rest \in 0 .. TarBlockSize - 1
      BY <1>1, NextMultiple
    <3>3. end = at + TarBlockSize + size + (TarBlockSize - rest)
      BY DEF end, EndOf
    <3> HIDE DEF rest, blocks
    <3>4. at + TarBlockSize + blocks = end
      BY <1>1, <3>1, <3>2, <3>3
    <3>5. QED BY <3>4 DEF blocks
  <2>3. QED BY <2>1, <2>2
<1>10. [file |-> file, size |-> size] \in EntriesOf(cells)
  BY <1>4, <1>5 DEF EntriesOf
<1>11. QED BY <1>8, <1>9, <1>10 DEF end

\* Where the files begin that are on tape up to a place.
Lists == Seq([file : FileNames, size : Nat])
Layout(cells, files, starts, place) ==
    /\ starts \in [1 .. Len(files) + 1 -> Nat] /\ starts[1] = 0 /\ starts[Len(files) + 1] = place
    /\ \A k \in 1 .. Len(files) :
           /\ starts[k + 1] = EndOf(starts[k], files[k].size) /\ starts[k + 1] <= place
           /\ FileAt(cells, starts[k], files[k].file, files[k].size)

LEMMA LayoutIs ==
    ASSUME NEW cells, NEW files \in Lists, NEW starts,
           NEW place, Layout(cells, files, starts, place)
    PROVE  \A k \in 1 .. Len(files) :
               /\ files[k].file \in FileNames /\ files[k].size \in Nat
               /\ files[k] = [file |-> files[k].file, size |-> files[k].size]
               /\ starts[k] \in Nat /\ starts[k + 1] \in Nat /\ starts[k + 1] <= place
               /\ starts[k + 1] = EndOf(starts[k], files[k].size)
               /\ FileAt(cells, starts[k], files[k].file, files[k].size)
<1> SUFFICES ASSUME NEW k \in 1 .. Len(files)
             PROVE  /\ files[k].file \in FileNames /\ files[k].size \in Nat
                    /\ files[k] = [file |-> files[k].file, size |-> files[k].size]
                    /\ starts[k] \in Nat /\ starts[k + 1] \in Nat /\ starts[k + 1] <= place
                    /\ starts[k + 1] = EndOf(starts[k], files[k].size)
                    /\ FileAt(cells, starts[k], files[k].file, files[k].size)
  OBVIOUS
<1>1. Len(files) \in Nat /\ k \in 1 .. Len(files) + 1 /\ k + 1 \in 1 .. Len(files) + 1
  BY DEF Lists
<1>2. starts[k] \in Nat /\ starts[k + 1] \in Nat
  BY <1>1 DEF Layout
<1> DEFINE R == [file : FileNames, size : Nat]
           record == files[k]
<1>3. record \in R
  <2>1. files \in Seq(R)
    BY DEF Lists
  <2> HIDE DEF R
  <2>2. QED BY <2>1
<1> HIDE DEF record
<1>4. record.file \in FileNames /\ record.size \in Nat /\ record = [file |-> record.file, size |-> record.size]
  BY <1>3
<1>5. QED BY <1>2, <1>4 DEF Layout, record

\* A reader finds the files in their order.
LEMMA ReadsAll ==
    ASSUME NEW cells, Whole(cells),
           NEW files \in Lists, NEW starts, NEW place \in Nat,
           place <= Len(cells), Layout(cells, files, starts, place)
    PROVE  IsPrefix(files, Entries(cells))
<1> DEFINE m == Len(files)
           E == EntriesOf(cells)
<1>1. PICK list : /\ Entries(cells) = list[0]
                  /\ \A at \in Nat : list[at] = Found(cells, list, at)
                  /\ \A at \in Nat : list[at] \in Seq(E)
  BY ReaderIs
<1>2. m \in Nat /\ Len(cells) \in Nat
  BY DEF Lists, Whole, IsTape
<1>3. starts[m + 1] \in Nat /\ starts[1] = 0
  BY <1>2 DEF Layout
<1>4. ASSUME NEW k \in 1 .. m
      PROVE  /\ files[k] \in E /\ starts[k + 1] \in Nat
             /\ list[starts[k]] = <<files[k]>> \o list[starts[k + 1]]
  <2> DEFINE here == starts[k]
             there == starts[k + 1]
             file == files[k].file
             size == files[k].size
  <2>1. /\ files[k] = [file |-> file, size |-> size] /\ size \in Nat
        /\ here \in Nat /\ there \in Nat /\ there <= place /\ there = EndOf(here, size)
        /\ FileAt(cells, here, file, size)
    BY LayoutIs
  <2> HIDE DEF here, there, file, size, m
  <2>2. EndOf(here, size) <= Len(cells)
    BY <1>2, <2>1
  <2>3. /\ list[here] = <<[file |-> file, size |-> size]>> \o list[EndOf(here, size)]
        /\ [file |-> file, size |-> size] \in EntriesOf(cells)
    BY <1>1, <2>1, <2>2, ReadsFile
  <2>4. QED BY <2>1, <2>3 DEF here, there
<1> DEFINE From(n) == list[starts[m - n + 1]]
           Good(n) == /\ From(n) \in Seq(E) /\ Len(From(n)) >= n
                      /\ \A i \in 1 .. n : From(n)[i] = files[m - n + i]
           T == {n \in Nat : n <= m => Good(n)}
<1>5. 0 \in T
  <2>1. m - 0 + 1 = m + 1
    BY <1>2
  <2>2. From(0) \in Seq(E)
    BY <1>1, <1>3, <2>1
  <2> HIDE DEF From
  <2>3. QED BY <2>2
<1>6. ASSUME NEW n \in Nat, n \in T PROVE n + 1 \in T
  <2>1. SUFFICES ASSUME n + 1 <= m PROVE Good(n + 1)
    <3> HIDE DEF Good
    <3>1. QED OBVIOUS
  <2> DEFINE k == m - n
             rest == From(n)
  <2>2. k \in 1 .. m /\ m - (n + 1) + 1 = k /\ m - n + 1 = k + 1 /\ n <= m
    BY <1>2, <2>1
  <2>3. Good(n)
    BY <1>6, <2>2
  <2>4. files[k] \in E /\ From(n + 1) = <<files[k]>> \o rest
    <3>1. files[k] \in E /\ list[starts[k]] = <<files[k]>> \o list[starts[k + 1]]
      <4> HIDE DEF k
      <4>1. QED BY <1>4, <2>2
    <3>2. From(n + 1) = list[starts[k]] /\ From(n) = list[starts[k + 1]]
      BY <2>2
    <3> HIDE DEF From, k
    <3>3. QED BY <3>1, <3>2
  <2> DEFINE first == files[k]
             longer == From(n + 1)
  <2>5. /\ rest \in Seq(E) /\ Len(rest) >= n /\ (\A i \in 1 .. n : rest[i] = files[k + i])
    BY <2>3
  <2>6. first \in E /\ longer = <<first>> \o rest
    BY <2>4
  <2> HIDE DEF From, rest, longer, E
  <2>7. longer \in Seq(E) /\ Len(longer) >= n + 1 /\ longer[1] = first
    <3> HIDE DEF first
    <3>1. QED BY <2>5, <2>6
  <2>8. ASSUME NEW i \in 1 .. n PROVE longer[i + 1] = rest[i]
    <3> HIDE DEF first
    <3>1. i \in 1 .. Len(rest) /\ Len(rest) \in Nat
      BY <2>5
    <3>2. QED BY <2>5, <2>6, <3>1
  <2>9. ASSUME NEW i \in 1 .. n + 1 PROVE longer[i] = files[m - (n + 1) + i]
    <3>1. CASE i = 1
      BY <2>2, <2>7, <3>1
    <3>2. CASE i # 1
      <4>1. i - 1 \in 1 .. n /\ (i - 1) + 1 = i /\ k + (i - 1) = m - (n + 1) + i
        BY <1>2, <3>2
      <4>2. longer[i] = rest[i - 1]
        BY <2>8, <4>1
      <4>3. rest[i - 1] = files[k + (i - 1)]
        BY <2>5, <4>1
      <4>4. QED BY <4>1, <4>2, <4>3
    <3>3. QED BY <3>1, <3>2
  <2>10. QED BY <2>7, <2>9 DEF longer
<1>7. Good(m)
  <2> HIDE DEF T, Good
  <2>1. m \in T
    BY <1>2, <1>5, <1>6, Induction
  <2>2. QED BY <1>2, <2>1 DEF T
<1> DEFINE all == Entries(cells)
<1>8. all = From(m)
  BY <1>1, <1>2, <1>3
<1>9. all \in Seq(E) /\ Len(all) >= m /\ \A i \in 1 .. m : all[i] = files[i]
  <2>1. \A i \in 1 .. m : m - m + i = i
    BY <1>2
  <2> HIDE DEF all, From
  <2>2. QED BY <1>7, <1>8, <2>1
<1> HIDE DEF all, m
<1>10. SubSeq(files, 1, m) = SubSeq(all, 1, m)
  <2>1. /\ SubSeq(files, 1, m) = [i \in 1 .. m |-> files[i]]
        /\ SubSeq(all, 1, m) = [i \in 1 .. m |-> all[i]]
    BY <1>2, <1>9 DEF m, Lists
  <2>2. QED BY <1>9, <2>1
<1>11. m <= Len(all)
  BY <1>2, <1>9
<1>12. QED BY <1>10, <1>11 DEF IsPrefix, all, m

\* What WriteAt leaves: the written cells, the others, and zeros between.
LEMMA WriteAtCells ==
    ASSUME NEW cells, IsTape(cells), NEW place \in Nat, NEW written, IsTape(written)
    PROVE  LET after == WriteAt(cells, place, written)
               end == place + Len(written)
           IN  /\ Len(after) = IF end > Len(cells) THEN end ELSE Len(cells)
               /\ \A i \in 1 .. Len(after) :
                      after[i] = IF i > place /\ i <= end THEN written[i - place]
                                 ELSE IF i <= Len(cells) THEN cells[i] ELSE Zero
<1> DEFINE end == place + Len(written)
           n == IF end > Len(cells) THEN end ELSE Len(cells)
           value(i) == IF i > place /\ i <= end THEN written[i - place]
                       ELSE IF i <= Len(cells) THEN cells[i] ELSE Zero
<1>1. n \in Nat
  BY DEF IsTape
<1>2. WriteAt(cells, place, written) = [i \in 1 .. n |-> value(i)]
  BY DEF WriteAt
<1> HIDE DEF n, value
<1>3. Len([i \in 1 .. n |-> value(i)]) = n /\ \A i \in 1 .. n : [j \in 1 .. n |-> value(j)][i] = value(i)
  BY <1>1
<1>4. QED BY <1>2, <1>3 DEF n, value

\* Up to a place nothing changes.
Same(cells, after, place) == \A i \in 1 .. place : after[i] = cells[i]

\* Writing behind the files leaves them as they are.
LEMMA WriteKeeps ==
    ASSUME NEW cells, Whole(cells), NEW place \in Nat, NEW written, Whole(written)
    PROVE  /\ Whole(WriteAt(cells, place, written))
           /\ place + Len(written) <= Len(WriteAt(cells, place, written))
           /\ Len(cells) <= Len(WriteAt(cells, place, written))
           /\ \A i \in 1 .. Len(written) : WriteAt(cells, place, written)[place + i] = written[i]
           /\ \A n \in Nat : n <= place /\ n <= Len(cells) =>
                  Same(cells, WriteAt(cells, place, written), n)
<1> DEFINE after == WriteAt(cells, place, written)
           end == place + Len(written)
<1>1. Len(cells) \in Nat /\ Len(written) \in Nat /\ IsTape(cells) /\ IsTape(written)
  BY DEF IsTape, Whole
<1>2. /\ Len(after) = IF end > Len(cells) THEN end ELSE Len(cells)
      /\ \A i \in 1 .. Len(after) :
             after[i] = IF i > place /\ i <= end THEN written[i - place]
                        ELSE IF i <= Len(cells) THEN cells[i] ELSE Zero
  BY <1>1, WriteAtCells
<1>3. end \in Nat /\ Len(after) \in Nat /\ end <= Len(after) /\ Len(cells) <= Len(after)
  BY <1>1, <1>2
<1> HIDE DEF after
<1>5. HeadersInv(after)
  <2>1. SUFFICES ASSUME NEW i \in 1 .. Len(after), after[i].is = "header" PROVE after[i].size \in Nat
    BY DEF HeadersInv
  <2>2. CASE i > place /\ i <= end
    <3>1. i - place \in 1 .. Len(written) /\ after[i] = written[i - place]
      BY <1>1, <1>2, <2>2
    <3>2. QED BY <2>1, <3>1 DEF HeadersInv, Whole
  <2>3. CASE ~(i > place /\ i <= end) /\ i <= Len(cells)
    <3>1. i \in 1 .. Len(cells) /\ after[i] = cells[i]
      BY <1>1, <1>2, <2>3
    <3>2. QED BY <2>1, <3>1 DEF HeadersInv, Whole
  <2>4. CASE ~(i > place /\ i <= end) /\ ~(i <= Len(cells))
    <3>1. after[i] = Zero
      BY <1>2, <2>4
    <3>2. QED BY <2>1, <3>1 DEF Zero
  <2>5. QED BY <2>2, <2>3, <2>4
<1>6. Whole(after)
  BY <1>3, <1>5 DEF Whole, IsTape
<1>7. ASSUME NEW i \in 1 .. Len(written) PROVE after[place + i] = written[i]
  <2>1. place + i \in 1 .. Len(after) /\ place + i > place /\ place + i <= end /\ (place + i) - place = i
    BY <1>1, <1>3
  <2>2. QED BY <1>2, <2>1
<1>8. ASSUME NEW n \in Nat, n <= place, n <= Len(cells), NEW i \in 1 .. n PROVE after[i] = cells[i]
  <2>1. i \in 1 .. Len(after) /\ ~(i > place) /\ i <= Len(cells)
    BY <1>1, <1>3, <1>8
  <2>2. QED BY <1>2, <2>1
<1>9. QED BY <1>3, <1>6, <1>7, <1>8 DEF after, Same

LEMMA LayoutStays ==
    ASSUME NEW cells, NEW after, NEW files \in Lists,
           NEW starts, NEW place \in Nat, Layout(cells, files, starts, place), Same(cells, after, place)
    PROVE  Layout(after, files, starts, place)
<1>1. TarBlockSize \in Nat \ {0}
  BY TarAssumption
<1>2. ASSUME NEW k \in 1 .. Len(files)
      PROVE  FileAt(after, starts[k], files[k].file, files[k].size)
  <2> DEFINE at == starts[k]
             file == files[k].file
             size == files[k].size
             body == at + TarBlockSize + size
             end == EndOf(at, size)
  <2>1. at \in Nat /\ size \in Nat /\ end <= place /\ FileAt(cells, at, file, size)
    <3>1. /\ starts[k] \in Nat /\ files[k].size \in Nat /\ starts[k + 1] <= place
          /\ starts[k + 1] = EndOf(starts[k], files[k].size)
          /\ FileAt(cells, starts[k], files[k].file, files[k].size)
      BY LayoutIs
    <3>2. QED BY <3>1
  <2>2. end \in Nat /\ body < end /\ (size % TarBlockSize = 0 => end = body + TarBlockSize)
    BY <2>1, EndIs
  <2> HIDE DEF at, file, size, end
  <2>3. at + 1 \in 1 .. place
    BY <1>1, <2>1, <2>2
  <2>4. \A i \in 1 .. size : at + TarBlockSize + i \in 1 .. place
    BY <1>1, <2>1, <2>2
  <2>5. size % TarBlockSize = 0 =>
            \A i \in 1 .. TarBlockSize : at + TarBlockSize + size + i \in 1 .. place
    <3>1. SUFFICES ASSUME size % TarBlockSize = 0, NEW i \in 1 .. TarBlockSize
                   PROVE  at + TarBlockSize + size + i \in 1 .. place
      OBVIOUS
    <3>2. end = body + TarBlockSize
      BY <2>2, <3>1
    <3>3. QED BY <1>1, <2>1, <2>2, <3>2
  <2>6. QED BY <2>1, <2>3, <2>4, <2>5 DEF FileAt, Same, at, file, size
<1>3. QED BY <1>2 DEF Layout

\* A file that was written behind the others is the last of the layout.
LEMMA LayoutAdds ==
    ASSUME NEW cells, NEW files \in Lists,
           NEW starts, NEW place \in Nat, Layout(cells, files, starts, place),
           NEW file \in FileNames, NEW size \in Nat, FileAt(cells, place, file, size)
    PROVE  \E next : Layout(cells, Append(files, [file |-> file, size |-> size]), next,
                            EndOf(place, size))
<1>0. ASSUME NEW k \in 1 .. Len(files)
      PROVE  /\ starts[k + 1] \in Nat /\ starts[k + 1] <= place
             /\ starts[k + 1] = EndOf(starts[k], files[k].size)
             /\ FileAt(cells, starts[k], files[k].file, files[k].size)
  BY LayoutIs
<1> DEFINE R == [file : FileNames, size : Nat]
           new == [file |-> file, size |-> size]
           n == Len(files)
           end == EndOf(place, size)
           next == [k \in 1 .. (n + 1) + 1 |-> IF k <= n + 1 THEN starts[k] ELSE end]
           more == Append(files, new)
<1>1. n \in Nat /\ end \in Nat /\ place <= end
  <2>0. n \in Nat
    BY DEF Lists
  <2>1. place + TarBlockSize + size < EndOf(place, size) /\ EndOf(place, size) \in Nat
    BY EndIs
  <2> HIDE DEF end
  <2>2. place <= EndOf(place, size)
    BY <2>1, TarAssumption
  <2>3. QED BY <2>0, <2>1, <2>2 DEF end
<1>2. starts \in [1 .. n + 1 -> Nat] /\ starts[1] = 0 /\ starts[n + 1] = place
  BY DEF Layout
<1>3. Len(more) = n + 1 /\ more[n + 1] = new /\ \A k \in 1 .. n : more[k] = files[k]
  <2>1. files \in Seq(R) /\ new \in R
    BY DEF Lists
  <2> HIDE DEF R, new
  <2>2. QED BY <2>1
<1>4. new.file = file /\ new.size = size
  OBVIOUS
<1> HIDE DEF end
<1>5. next \in [1 .. (n + 1) + 1 -> Nat] /\ next[1] = 0 /\ next[(n + 1) + 1] = end
      /\ \A k \in 1 .. n + 1 : next[k] = starts[k]
  BY <1>1, <1>2
<1> HIDE DEF next, more, new
<1>6. ASSUME NEW k \in 1 .. n + 1
      PROVE  /\ next[k + 1] = EndOf(next[k], more[k].size) /\ next[k + 1] <= end
             /\ FileAt(cells, next[k], more[k].file, more[k].size)
  <2>1. CASE k \in 1 .. n
    <3>1. /\ starts[k + 1] \in Nat /\ starts[k + 1] <= place
          /\ starts[k + 1] = EndOf(starts[k], files[k].size)
          /\ FileAt(cells, starts[k], files[k].file, files[k].size)
      BY <1>0, <2>1
    <3>2. next[k] = starts[k] /\ next[k + 1] = starts[k + 1] /\ more[k] = files[k]
      <4>1. k + 1 \in 1 .. n + 1
        BY <1>1, <2>1
      <4>2. QED BY <1>3, <1>5, <2>1, <4>1
    <3>3. starts[k + 1] <= end
      BY <1>1, <3>1
    <3>4. QED BY <3>1, <3>2, <3>3
  <2>2. CASE k = n + 1
    <3>1. next[k] = place /\ next[k + 1] = end /\ more[k] = new
      BY <1>2, <1>3, <1>5, <2>2
    <3>2. QED BY <1>1, <1>4, <3>1 DEF end
  <2>3. QED BY <1>1, <2>1, <2>2
<1>7. Layout(cells, more, next, end)
  BY <1>3, <1>5, <1>6 DEF Layout
<1>8. QED BY <1>7 DEF more, new, end

\* The cells that are written carry no header but those of files.
LEMMA CellsWhole ==
    ASSUME NEW n \in Nat
    PROVE  /\ Whole(Repeat(Data, n)) /\ Whole(Repeat(Zero, n)) /\ Whole(Repeat(Old, n))
           /\ \A file : \A size \in Nat : Whole(Tapefile(file, size))
<1>1. ASSUME NEW cell, cell.is # "header" PROVE Whole(Repeat(cell, n))
  <2>1. Len(Repeat(cell, n)) = n /\ \A i \in 1 .. n : Repeat(cell, n)[i] = cell
    BY RepeatIs
  <2>2. QED BY <1>1, <2>1 DEF Whole, IsTape, HeadersInv
<1>2. ASSUME NEW file, NEW size \in Nat PROVE Whole(Tapefile(file, size))
  <2> DEFINE cells == Tapefile(file, size)
  <2>1. /\ Len(cells) = TarBlockSize /\ IsTape(cells) /\ cells[1] = Header(file, size)
        /\ \A i \in 2 .. TarBlockSize : cells[i] = Data
    BY TapefileIs
  <2> HIDE DEF cells
  <2>2. ASSUME NEW i \in 1 .. TarBlockSize, cells[i].is = "header" PROVE cells[i].size \in Nat
    <3>1. i = 1 \/ i \in 2 .. TarBlockSize
      BY TarAssumption
    <3>2. i = 1
      BY <2>1, <2>2, <3>1 DEF Data
    <3>3. QED BY <2>1, <3>2 DEF Header
  <2>3. QED BY <2>1, <2>2 DEF Whole, HeadersInv, cells
<1>3. Data.is # "header" /\ Zero.is # "header" /\ Old.is # "header"
  BY DEF Data, Zero, Old
<1>4. QED BY <1>1, <1>2, <1>3

\* Finish writes two blocks of zeros behind the files, a block further on.
LEMMA FinishKeeps ==
    ASSUME NEW cells, Whole(cells), NEW place \in Nat, place <= Len(cells)
    PROVE  /\ Whole(Finish(cells, place)) /\ place <= Len(Finish(cells, place))
           /\ Same(cells, Finish(cells, place), place)
<1> DEFINE first == place + TarBlockSize
           second == first + TarBlockSize
           once == WriteAt(cells, first, Padding)
           twice == WriteAt(once, second, Padding)
<1>1. TarBlockSize \in Nat \ {0} /\ first \in Nat /\ second \in Nat /\ place <= first /\ place <= second
  BY TarAssumption
<1>2. Whole(Padding) /\ IsTape(Padding) /\ IsTape(cells) /\ Len(cells) \in Nat /\ Len(Padding) \in Nat
  BY <1>1, CellsWhole DEF Padding, Whole, IsTape
<1> HIDE DEF first, second
<1>3. Whole(once) /\ Len(cells) <= Len(once) /\ Same(cells, once, place)
  BY <1>1, <1>2, WriteKeeps
<1> HIDE DEF once
<1>4. Len(once) \in Nat /\ place <= Len(once)
  BY <1>2, <1>3 DEF Whole, IsTape
<1>5. Whole(twice) /\ Len(once) <= Len(twice) /\ Same(once, twice, place)
  BY <1>1, <1>2, <1>3, <1>4, WriteKeeps
<1> HIDE DEF twice
<1>6. Finish(cells, place) = twice
  BY DEF Finish, twice, once, first, second
<1>7. Same(cells, twice, place)
  BY <1>3, <1>5 DEF Same
<1>8. Len(twice) \in Nat
  BY <1>5 DEF Whole, IsTape
<1>9. QED BY <1>4, <1>5, <1>6, <1>7, <1>8

\* In an export the files so far lie one behind the other up to where the next goes on, of the
\* one that is being written the header and what is copied. Every file is there or to come.
\* What an export that ended left of fastnx.tar may be anything.
Written == {included[k].file : k \in DOMAIN included}
Writing == IF copying = None THEN {} ELSE {copying.file}
PartAt(cells, at, part) ==
    /\ at + TarBlockSize + part.done <= Len(cells)
    /\ cells[at + 1] = Header(part.file, part.size)
    /\ \A i \in 1 .. part.done : cells[at + TarBlockSize + i] = Data
Lies(cells, files, place) == place <= Len(cells) /\ \E starts : Layout(cells, files, starts, place)
ArchiveInv ==
    /\ tape = None \/ Whole(tape)
    /\ copying # None => where = "export"
    /\ where \in {"export", "exported"} =>
           /\ Whole(tape) /\ included \in Lists /\ left \subseteq FileNames
           /\ Exports = left \cup Written \cup Writing
           /\ copying = None => Lies(tape, included, offset)
           /\ copying # None => \E at \in Nat :
                  /\ offset = at + TarBlockSize
                  /\ PartAt(tape, at, copying) /\ Lies(tape, included, at)
    /\ where = "exported" => left = {}

LEMMA ArchiveInit == Init => ArchiveInv
BY DEF Init, ArchiveInv

\* A write behind a place keeps what lies before it.
LEMMA LiesStays ==
    ASSUME NEW cells, Whole(cells), NEW files \in Lists, NEW place \in Nat, Lies(cells, files, place),
           NEW further \in Nat, place <= further, NEW written, Whole(written)
    PROVE  LET after == WriteAt(cells, further, written)
           IN  Whole(after) /\ further + Len(written) <= Len(after) /\ Lies(after, files, place)
<1> DEFINE after == WriteAt(cells, further, written)
<1>1. PICK starts : Layout(cells, files, starts, place)
  BY DEF Lies
<1>2. place <= Len(cells)
  BY DEF Lies
<1>3. /\ Whole(after) /\ Len(cells) <= Len(after) /\ further + Len(written) <= Len(after)
      /\ Same(cells, after, place)
  BY <1>2, WriteKeeps
<1> HIDE DEF after
<1>4. Len(cells) \in Nat /\ Len(after) \in Nat
  BY <1>3 DEF Whole, IsTape
<1>5. Layout(after, files, starts, place)
  BY <1>1, <1>3, LayoutStays
<1>6. place <= Len(after)
  BY <1>2, <1>3, <1>4
<1>7. QED BY <1>3, <1>5, <1>6 DEF after, Lies

LEMMA IncludeStep ==
    ASSUME TapeInv, PhaseInv, ArchiveInv, NEW file \in left, IncludeNext(file)
    PROVE  ArchiveInv'
<1> DEFINE size == Size(file)
           head == Tapefile(file, size)
<1>1. /\ where = "export" /\ where' = "export" /\ copying = None
      /\ left' = left \ {file} /\ included' = included /\ disk' = disk
      /\ tape' = WriteAt(tape, offset, head) /\ offset' = offset + TarBlockSize
      /\ copying' = [file |-> file, size |-> size, done |-> 0]
  BY DEF IncludeNext, cacheVars
<1>2. /\ Whole(tape) /\ included \in Lists /\ left \subseteq FileNames /\ offset \in Nat
      /\ Exports = left \cup Written
  BY <1>1 DEF ArchiveInv, TapeInv, Writing
<1>3. Lies(tape, included, offset)
  BY <1>1 DEF ArchiveInv
<1>4. size \in Nat
  <2>1. TarSize \in Nat
    BY <1>2 DEF TarSize, TapeInv, Whole, IsTape
  <2>2. QED BY <2>1, ApplicationAssumption DEF Size, TapeInv
<1> HIDE DEF size
<1>5. copying' # None
  <2>1. copying' \in [file : FileNames, size : Nat, done : Nat]
    BY <1>1, <1>2, <1>4
  <2>2. QED BY <2>1, ExportAssumption
<1>6. Whole(head) /\ Len(head) = TarBlockSize /\ head[1] = Header(file, size)
  BY <1>4, CellsWhole, TapefileIs
<1> HIDE DEF head
<1>7. Whole(tape') /\ offset + TarBlockSize <= Len(tape') /\ Lies(tape', included, offset)
  <2>1. offset <= offset
    BY <1>2
  <2>2. QED BY <1>1, <1>2, <1>3, <1>6, <2>1, LiesStays
<1>8. tape'[offset + 1] = Header(file, size)
  <2>1. 1 \in 1 .. Len(head)
    BY <1>6, TarAssumption
  <2>2. WriteAt(tape, offset, head)[offset + 1] = head[1]
    BY <1>2, <1>6, <2>1, WriteKeeps
  <2>3. QED BY <1>1, <1>6, <2>2
<1>9. PartAt(tape', offset, copying') /\ Lies(tape', included', offset)
  <2>1. copying'.done = 0 /\ copying'.file = file /\ copying'.size = size
    BY <1>1
  <2>2. offset + TarBlockSize + 0 <= Len(tape')
    BY <1>2, <1>7, TarAssumption
  <2>3. PartAt(tape', offset, copying')
    BY <1>8, <2>1, <2>2 DEF PartAt
  <2>4. QED BY <1>1, <1>7, <2>3
<1>10. Exports' = left' \cup Written' \cup Writing'
  <2>1. Exports' = Exports /\ Written' = Written /\ Writing' = {file}
    BY <1>1, <1>5 DEF Exports, Stored, Written, Writing
  <2>2. QED BY <1>1, <1>2, <2>1
<1>11. QED BY <1>1, <1>2, <1>5, <1>7, <1>9, <1>10 DEF ArchiveInv

\* A turn of CopyToFile goes on where the one before ended.
LEMMA CopyStep ==
    ASSUME TapeInv, ArchiveInv, CopyToFile
    PROVE  ArchiveInv'
<1> DEFINE n == Turn(copying.done, copying.size)
           cells == Repeat(Data, n)
<1>1. /\ where = "export" /\ where' = "export" /\ copying # None /\ copying.done < copying.size
      /\ UNCHANGED <<left, included, disk, offset>>
      /\ tape' = WriteAt(tape, offset + copying.done, cells)
      /\ copying' = [copying EXCEPT !.done = @ + n]
  BY DEF CopyToFile, CopyAt, cacheVars
<1>2. /\ Whole(tape) /\ included \in Lists /\ left \subseteq FileNames /\ offset \in Nat
      /\ Exports = left \cup Written \cup Writing
  BY <1>1 DEF ArchiveInv, TapeInv
<1>3. copying \in [file : FileNames, size : Nat, done : Nat]
  BY <1>1 DEF TapeInv
<1>4. PICK at \in Nat : /\ offset = at + TarBlockSize
                       /\ PartAt(tape, at, copying) /\ Lies(tape, included, at)
  BY <1>1 DEF ArchiveInv
<1> DEFINE done == copying.done
<1>5. done \in Nat /\ copying.size \in Nat
  BY <1>3
<1>6. n \in Nat \ {0} /\ done + n <= copying.size
  BY <1>1, <1>5, TurnIs
<1>7. copying' \in [file : FileNames, size : Nat, done : Nat] /\ copying'.done = done + n
      /\ copying'.file = copying.file /\ copying'.size = copying.size
  <2> HIDE DEF n
  <2>1. QED BY <1>1, <1>3, <1>5, <1>6
<1>8. copying' # None
  BY <1>7, ExportAssumption
<1> HIDE DEF n
<1>9. Whole(cells) /\ Len(cells) = n /\ \A i \in 1 .. n : cells[i] = Data
  BY <1>6, CellsWhole, RepeatIs
<1> DEFINE further == offset + done
<1>10. further \in Nat /\ at <= further /\ at + 1 <= further /\ further = at + TarBlockSize + done
       /\ further <= Len(tape) /\ Len(tape) \in Nat
  BY <1>2, <1>4, <1>5, TarAssumption DEF PartAt, Whole, IsTape
<1> HIDE DEF cells, further, done
<1>11. Whole(tape') /\ further + n <= Len(tape') /\ Lies(tape', included, at)
  <2>1. tape' = WriteAt(tape, further, cells)
    BY <1>1 DEF further, done
  <2>2. QED BY <1>2, <1>4, <1>9, <1>10, <2>1, LiesStays
<1>12. /\ \A i \in 1 .. n : tape'[further + i] = cells[i]
       /\ Same(tape, tape', further)
  <2>1. tape' = WriteAt(tape, further, cells)
    BY <1>1 DEF further, done
  <2>2. QED BY <1>2, <1>9, <1>10, <2>1, WriteKeeps
<1>13. PartAt(tape', at, copying')
  <2>1. at + TarBlockSize + (done + n) = further + n
    BY <1>5, <1>6, <1>10, TarAssumption
  <2>2. tape'[at + 1] = Header(copying.file, copying.size)
    <3>1. at + 1 \in 1 .. further
      BY <1>10
    <3>2. QED BY <1>4, <1>12, <3>1 DEF PartAt, Same
  <2>3. ASSUME NEW i \in 1 .. done + n PROVE tape'[at + TarBlockSize + i] = Data
    <3>1. CASE i <= done
      <4>1. at + TarBlockSize + i \in 1 .. further /\ i \in 1 .. done
        BY <1>5, <1>10, <3>1, TarAssumption
      <4>2. tape[at + TarBlockSize + i] = Data
        BY <1>4, <4>1 DEF PartAt, done
      <4>3. QED BY <1>12, <4>1, <4>2 DEF Same
    <3>2. CASE ~(i <= done)
      <4>1. i - done \in 1 .. n /\ at + TarBlockSize + i = further + (i - done)
        BY <1>5, <1>6, <1>10, <3>2, TarAssumption
      <4>2. QED BY <1>9, <1>12, <4>1
    <3>3. QED BY <3>1, <3>2
  <2>4. QED BY <1>7, <1>11, <2>1, <2>2, <2>3 DEF PartAt
<1>14. Exports' = left' \cup Written' \cup Writing'
  <2>1. Exports' = Exports /\ Written' = Written /\ Writing' = Writing
    BY <1>1, <1>7, <1>8 DEF Exports, Stored, Written, Writing
  <2>2. QED BY <1>1, <1>2, <2>1
<1>15. QED BY <1>1, <1>2, <1>4, <1>8, <1>11, <1>13, <1>14 DEF ArchiveInv

\* The zeros end the file, which is then one of those that lie there.
LEMMA ZerosStep ==
    ASSUME TapeInv, ArchiveInv, WriteZeros
    PROVE  ArchiveInv'
<1> DEFINE file == copying.file
           size == copying.size
           end == offset + size
           n == ZerosBehind(end)
           zeros == Repeat(Zero, n)
           new == [file |-> file, size |-> size]
<1>1. /\ where = "export" /\ where' = "export" /\ copying # None /\ copying.done = size
      /\ UNCHANGED <<left, disk>> /\ copying' = None /\ included' = Append(included, new)
      /\ tape' = WriteAt(tape, end, zeros) /\ offset' = end + n
  BY DEF WriteZeros, cacheVars
<1>2. /\ Whole(tape) /\ included \in Lists /\ left \subseteq FileNames
      /\ offset \in Nat /\ offset % TarBlockSize = 0
      /\ Exports = left \cup Written \cup Writing
  BY <1>1 DEF ArchiveInv, TapeInv
<1>3. file \in FileNames /\ size \in Nat
  <2>1. copying \in [file : FileNames, size : Nat, done : Nat]
    BY <1>1 DEF TapeInv
  <2>2. QED BY <2>1
<1>4. PICK at \in Nat : /\ offset = at + TarBlockSize
                       /\ PartAt(tape, at, copying) /\ Lies(tape, included, at)
  BY <1>1 DEF ArchiveInv
<1>5. /\ tape[at + 1] = Header(file, size) /\ at + TarBlockSize + size <= Len(tape)
      /\ \A i \in 1 .. size : tape[at + TarBlockSize + i] = Data
  BY <1>1, <1>4 DEF PartAt
<1>6. n \in Nat /\ n = TarBlockSize - (size % TarBlockSize)
      /\ (size % TarBlockSize = 0 => n = TarBlockSize)
  <2> DEFINE T == TarBlockSize
  <2>1. T \in Nat \ {0} /\ offset % T = 0
    BY <1>2, TarAssumption
  <2> HIDE DEF T, size
  <2>2. end % T = size % T
    BY <1>2, <1>3, <2>1, SumRest
  <2>3. n = T - (size % T)
    BY <2>2 DEF ZerosBehind, T
  <2>4. end \in Nat
    BY <1>2, <1>3
  <2>5. n \in Nat
    BY <2>4, ZerosEndBlock, TarAssumption
  <2>6. size % T = 0 => T - (size % T) = T
    BY <2>1
  <2>7. QED BY <2>3, <2>5, <2>6 DEF T
<1>7. end \in Nat /\ end = at + TarBlockSize + size /\ at <= end /\ at + 1 <= end
      /\ end <= Len(tape) /\ Len(tape) \in Nat
  <2> HIDE DEF size
  <2>1. QED BY <1>2, <1>3, <1>4, <1>5, TarAssumption DEF Whole, IsTape
<1>8. offset' = EndOf(at, size) /\ offset' \in Nat
  <2>1. offset' = (at + TarBlockSize + size) + (TarBlockSize - (size % TarBlockSize))
    BY <1>1, <1>6, <1>7
  <2>2. EndOf(at, size) \in Nat
    BY <1>3, EndIs
  <2>3. QED BY <2>1, <2>2 DEF EndOf
<1> HIDE DEF n
<1>9. Whole(zeros) /\ Len(zeros) = n /\ \A i \in 1 .. n : zeros[i] = Zero
  BY <1>6, CellsWhole, RepeatIs
<1> HIDE DEF zeros, end, file, size
<1>10. Whole(tape') /\ end + n <= Len(tape') /\ Lies(tape', included, at)
  BY <1>1, <1>2, <1>4, <1>7, <1>9, LiesStays
<1>11. /\ \A i \in 1 .. n : tape'[end + i] = zeros[i]
       /\ Same(tape, tape', end)
  BY <1>1, <1>2, <1>7, <1>9, WriteKeeps
<1>12. FileAt(tape', at, file, size)
  <2>1. tape'[at + 1] = Header(file, size)
    <3>1. at + 1 \in 1 .. end
      BY <1>7
    <3>2. QED BY <1>5, <1>11, <3>1 DEF Same
  <2>2. ASSUME NEW i \in 1 .. size PROVE tape'[at + TarBlockSize + i] = Data
    <3>1. at + TarBlockSize + i \in 1 .. end
      BY <1>3, <1>7, TarAssumption
    <3>2. QED BY <1>5, <1>11, <3>1 DEF Same
  <2>3. ASSUME size % TarBlockSize = 0, NEW i \in 1 .. TarBlockSize
        PROVE  tape'[at + TarBlockSize + size + i] = Zero
    <3>1. i \in 1 .. n
      BY <1>6, <2>3
    <3>2. tape'[end + i] = Zero
      BY <1>9, <1>11, <3>1
    <3>3. QED BY <1>7, <3>2
  <2>4. QED BY <2>1, <2>2, <2>3 DEF FileAt
<1>13. Lies(tape', included', offset')
  <2>1. PICK starts : Layout(tape', included, starts, at)
    BY <1>10 DEF Lies
  <2>2. \E next : Layout(tape', Append(included, [file |-> file, size |-> size]), next, EndOf(at, size))
    BY <1>2, <1>3, <1>12, <2>1, LayoutAdds
  <2>3. offset' <= Len(tape')
    BY <1>1, <1>10
  <2>4. QED BY <1>1, <1>8, <2>2, <2>3 DEF Lies, new
<1>14. included' \in Lists /\ Written' = Written \cup {file}
  <2> DEFINE R == [file : FileNames, size : Nat]
             m == Len(included)
  <2>1. included \in Seq(R) /\ new \in R /\ new.file = file
    BY <1>2, <1>3 DEF Lists
  <2> HIDE DEF R, new
  <2>2. included' \in Seq(R)
    BY <1>1, <2>1
  <2>3. /\ m \in Nat /\ DOMAIN included = 1 .. m /\ DOMAIN included' = 1 .. m + 1
        /\ included'[m + 1] = new /\ \A k \in 1 .. m : included'[k] = included[k]
    BY <1>1, <2>1
  <2> HIDE DEF m
  <2>4. Written' = {included[k].file : k \in 1 .. m} \cup {new.file}
    <3>1. Written' = {included'[k].file : k \in 1 .. m + 1}
      BY <2>3 DEF Written
    <3>2. \A k : k \in 1 .. m + 1 <=> k \in 1 .. m \/ k = m + 1
      BY <2>3
    <3>3. QED BY <2>3, <3>1, <3>2
  <2>5. Written = {included[k].file : k \in 1 .. m}
    BY <2>3 DEF Written
  <2>6. QED BY <2>1, <2>2, <2>4, <2>5 DEF R, Lists
<1>15. Exports' = left' \cup Written' \cup Writing'
  <2>1. Exports' = Exports /\ Writing = {file} /\ Writing' = {}
    BY <1>1 DEF Exports, Stored, Writing, file
  <2>2. QED BY <1>1, <1>2, <1>14, <2>1
<1>16. QED BY <1>1, <1>2, <1>10, <1>13, <1>14, <1>15 DEF ArchiveInv

\* Every step keeps it: an export that ends at any place leaves a tape that the next can
\* write on.
LEMMA ArchiveStep ==
    InstanceInv /\ TapeInv /\ PhaseInv /\ ArchiveInv /\ [Next]_vars => ArchiveInv'
<1> SUFFICES ASSUME InstanceInv, TapeInv, PhaseInv, ArchiveInv, [Next]_vars PROVE ArchiveInv'
  OBVIOUS
<1>1. CASE \E file \in left : IncludeNext(file)
  BY <1>1, IncludeStep
<1>2. CASE CopyToFile \/ WriteZeros
  BY <1>2, CopyStep, ZerosStep
<1>3. CASE Exported
  <2>1. /\ where = "export" /\ where' = "exported" /\ left = {} /\ copying = None
        /\ tape' = Finish(tape, offset)
        /\ UNCHANGED <<offset, included, left, copying, disk>>
    BY <1>3 DEF Exported, cacheVars
  <2>2. /\ Whole(tape) /\ included \in Lists /\ offset \in Nat /\ Lies(tape, included, offset)
        /\ Exports = left \cup Written \cup Writing
    BY <2>1 DEF ArchiveInv, TapeInv
  <2>3. PICK starts : Layout(tape, included, starts, offset)
    BY <2>2 DEF Lies
  <2>4. offset <= Len(tape)
    BY <2>2 DEF Lies
  <2>5. Whole(tape') /\ offset <= Len(tape') /\ Same(tape, tape', offset)
    BY <2>1, <2>2, <2>4, FinishKeeps
  <2>6. Layout(tape', included, starts, offset)
    BY <2>2, <2>3, <2>5, LayoutStays
  <2>7. Lies(tape', included', offset')
    BY <2>1, <2>5, <2>6 DEF Lies
  <2>8. Exports' = left' \cup Written' \cup Writing'
    BY <2>1, <2>2 DEF Exports, Stored, Written, Writing
  <2>9. QED BY <2>1, <2>2, <2>5, <2>7, <2>8 DEF ArchiveInv
<1>4. CASE ExportCache
  <2>1. /\ tape' = (IF tape = None THEN <<>> ELSE tape) /\ left' = Exports /\ disk' = disk
        /\ included' = <<>> /\ offset' = 0 /\ where' = "export" /\ copying' = copying
        /\ where = "loaders"
    BY <1>4 DEF ExportCache, Exports, Loaded, cacheVars
  <2>2. copying = None
    BY <2>1 DEF ArchiveInv
  <2>3. Whole(<<>>)
    BY DEF Whole, IsTape, HeadersInv
  <2>4. Whole(tape') /\ 0 <= Len(tape')
    BY <2>1, <2>3 DEF ArchiveInv, Whole, IsTape
  <2>5. Layout(tape', <<>>, [k \in 1 .. 1 |-> 0], 0)
    BY DEF Layout
  <2>6. Lies(tape', included', offset')
    BY <2>1, <2>4, <2>5 DEF Lies
  <2>7. included' \in Lists /\ left' \subseteq FileNames
    BY <2>1 DEF Lists, Exports, Stored, FileNames
  <2>8. Exports' = left' \cup Written' \cup Writing'
    BY <2>1, <2>2 DEF Exports, Stored, Written, Writing
  <2>9. QED BY <2>1, <2>2, <2>4, <2>6, <2>7, <2>8 DEF ArchiveInv
<1>5. CASE \/ Load \/ LoadFirstPickedGame \/ ClearCache \/ Cleared
           \/ \E id \in Rights : DeleteNext(id)
  <2>1. tape' = tape /\ copying' = copying
    BY <1>5 DEF Load, LoadTicket, TicketsLoaded, LoadOther, OpenPackage, ReadTicket,
       ReadContentXml, PassItem, EndLoop, OpenArchive, Finished, Export, LoadFirstPickedGame,
       ClearCache, Cleared, DeleteNext, Runs, tarVars
  <2>2. where \notin {"export", "exported"}
    <3>1. Export => exporting # None
      BY DEF Export, ExportSignature, ExportContent
    <3>2. QED BY <1>5, <3>1 DEF Load, LoadTicket, TicketsLoaded, LoadOther, OpenPackage, ReadTicket,
       ReadContentXml, PassItem, EndLoop, OpenArchive, Finished, LoadFirstPickedGame,
       ClearCache, Cleared, DeleteNext, InLoop, Loaded, PhaseInv
  <2>3. where' \notin {"export", "exported"}
    BY <1>5, <2>2 DEF Load, LoadTicket, TicketsLoaded, LoadOther, OpenPackage, ReadTicket,
       ReadContentXml, PassItem, EndLoop, OpenArchive, Finished, Export, LoadFirstPickedGame,
       ClearCache, Cleared, DeleteNext
  <2>4. QED BY <2>1, <2>2, <2>3 DEF ArchiveInv
<1>6. CASE \E i \in Instances : Enter(i) \/ End(i)
  <2> PICK i \in Instances : Enter(i) \/ End(i)
    BY <1>6
  <2>1. CASE Enter(i)
    <3>1. where = "nobody"
      BY <2>1 DEF Enter, InstanceInv, InstanceTypes, OneSees, Past, Sees, Occupied
    <3>2. QED BY <2>1, <3>1 DEF Enter, ArchiveInv
  <2>2. CASE End(i)
    <3>1. tape' = (IF tape = None THEN None ELSE Repeat(Old, Len(tape))) /\ where' = "nobody"
          /\ copying' = None
      BY <2>2 DEF End, NoSession
    <3>2. ASSUME tape # None PROVE Whole(tape')
      <4>1. tape' = Repeat(Old, Len(tape)) /\ Len(tape) \in Nat
        BY <3>1, <3>2 DEF ArchiveInv, Whole, IsTape
      <4>2. QED BY <4>1, CellsWhole
    <3>3. QED BY <3>1, <3>2 DEF ArchiveInv
  <2>3. QED BY <2>1, <2>2
<1>7. CASE \/ \E i \in Instances : \/ Begin(i) \/ ListAllTopLevelFiles(i) \/ Leave(i)
                                   \/ \E j \in Instances : ReadStatus(i, j)
           \/ UNCHANGED vars
  <2>1. UNCHANGED <<cacheVars, tarVars, where>>
    BY <1>7 DEF Begin, ListAllTopLevelFiles, Leave, ReadStatus, vars
  <2>2. QED BY <2>1 DEF cacheVars, tarVars, ArchiveInv, Exports, Stored, Written, Writing
<1>8. QED BY <1>1, <1>2, <1>3, <1>4, <1>5, <1>6, <1>7 DEF Next, Command, Scan

\* For every cache and every size of the files and of the tape, and whatever an export that
\* ended at any of its writes left of fastnx.tar: when the next is done, the archive holds
\* every ticket, the keys and itself, and a reader that passes over blocks of zeros finds
\* them all, in their order and with their content.
THEOREM ArchivesHoldAll == Spec => []ArchiveHoldsAll
<1>1. TapeInv /\ PhaseInv /\ ArchiveInv => ArchiveHoldsAll
  <2> SUFFICES ASSUME TapeInv, ArchiveInv, where = "exported"
               PROVE  /\ IsPrefix(included, Entries(tape))
                      /\ Exports = {included[k].file : k \in DOMAIN included}
    BY DEF ArchiveHoldsAll
  <2>1. /\ Whole(tape) /\ included \in Lists /\ offset \in Nat /\ left = {} /\ copying = None
        /\ Lies(tape, included, offset) /\ Exports = left \cup Written \cup Writing
    BY DEF ArchiveInv, TapeInv
  <2>2. PICK starts : Layout(tape, included, starts, offset)
    BY <2>1 DEF Lies
  <2>3. offset <= Len(tape)
    BY <2>1 DEF Lies
  <2>4. IsPrefix(included, Entries(tape))
    BY <2>1, <2>2, <2>3, ReadsAll
  <2>5. QED BY <2>1, <2>4 DEF Written, Writing
<1>2. QED BY <1>1, InstanceInit, InstanceStep, LoaderInit, LoaderStep, TicketInit, TicketStep,
          TypesInit, TapeStep, ArchiveInit, ArchiveStep, PTL DEF Spec
=============================================================================
