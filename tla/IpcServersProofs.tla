-------------------------- MODULE IpcServersProofs --------------------------
(***************************************************************************)
(* Servers that share neither key nor file do not disturb each other, for   *)
(* any number of servers and clients, failures and kills.                   *)
(***************************************************************************)
EXTENDS IpcServers, SequenceTheorems, TLAPS

\* The configurations differ in what names the segment and the info file; ports
\* may be the same.
OwnConfiguration ==
  \A s, t \in Server : KeyOf[s] = KeyOf[t] \/ FileOf[s] = FileOf[t] => s = t

-----------------------------------------------------------------------------
(* The inductive invariant.                                                 *)

Early    == {"never", "off", "listening"}
Copied   == {"waiting", "accepted", "asleep", "unlistened", "disconnected", "unallocated"}
Holding  == {"allocated", "opened", "published", "copying",
             "waiting", "accepted", "asleep", "unlistened", "disconnected"}
Attached == {"copying", "waiting", "accepted", "asleep", "unlistened", "disconnected"}
Open     == {"allocated", "opened", "published", "copying", "waiting", "accepted", "asleep"}
Closed   == {"never", "off", "unlistened", "disconnected", "unallocated", "ended",
             "failed", "killed"}
GonePlace == {"ended", "failed", "killed"}

\* A server has no segment but its own, which lives from its creation to its removal.
SegmentSound(s) ==
  /\ shmid[s] \in {None, s}
  /\ shmid[s] = None <=> seg[s] = "none"
  /\ spc[s] \in Early => shmid[s] = None
  /\ spc[s] \in Attached => shmid[s] = s
  /\ spc[s] \in Holding /\ shmid[s] = s => seg[s] = "live"
  /\ spc[s] \in {"unallocated", "ended", "failed"} => seg[s] # "live"
  /\ spc[s] \in Copied => mem[s] = s

\* Its socket is open as long as its segment is of use.
SocketSound(s) ==
  /\ spc[s] = "listening" \/ (spc[s] \in Open /\ shmid[s] = s) => s \in listening
  /\ spc[s] \in Closed => s \notin listening
  /\ s \notin listening => backlog[s] = <<>>

\* Its info file is its own.
InfoSound(s) ==
  /\ spc[s] \in {"published", "copying"} \union Copied => info[FileOf[s]] = s
  /\ spc[s] = "ended" => info[FileOf[s]] # s

ServerSound == \A s \in Server : SegmentSound(s) /\ SocketSound(s) /\ InfoSound(s)

FilesSound == \A f \in File : info[f] \in Server => FileOf[info[f]] = f

Visiting == {"connecting", "locating", "attaching"}

\* Where a client is in its two loops.
LoopSound(c) ==
  /\ cpc[c] \in Visiting \union {"receiving"} => cur[c] \in File
  /\ cpc[c] \in {"never", "off"} => \A f \in File : entry[<<c, f>>] = NoEntry
  /\ cpc[c] \in Visiting \union {"scanning"} => \A f \in todo[c] : entry[<<c, f>>] = NoEntry
  /\ cpc[c] \in Visiting => /\ cur[c] \notin todo[c]
                            /\ entry[Here(c)].shm = None /\ entry[Here(c)].shmMsg = None
  /\ cpc[c] = "attaching" /\ found[c] # None =>
       found[c] = entry[Here(c)].src /\ seg[found[c]] # "none"

\* What it has found under the name of a file belongs to the owner of the file.
EntrySound(c) ==
  \A f \in File :
    LET e == entry[<<c, f>>] IN
      /\ e.src \in Server => FileOf[e.src] = f
      /\ e.shm # None => e.src = e.shm /\ seg[e.shm] # "none"
      /\ e.shm # None /\ e.shmMsg # None /\ e.shm \in up[c] => e.shmMsg = e.shm

UpSound(c) ==
  \A s \in up[c] : mem[s] = s /\ spc[s] \in Copied \union GonePlace

ClientSound == \A c \in Client : LoopSound(c) /\ EntrySound(c) /\ UpSound(c)

IpcInv == TypeOK /\ ServerSound /\ FilesSound /\ ClientSound

-----------------------------------------------------------------------------
(* Steps of servers.                                                        *)

\* What a step of server s may change, as far as the others can tell.
Touches(s) ==
  /\ UNCHANGED clientVars
  /\ \A t \in Server \ {s} :
       /\ spc'[t] = spc[t] /\ shmid'[t] = shmid[t] /\ backlog'[t] = backlog[t]
       /\ t \in listening' <=> t \in listening
       /\ seg'[t] = seg[t] /\ mem'[t] = mem[t]
       /\ info'[FileOf[t]] = info[FileOf[t]]
  /\ seg[s] # "none" => seg'[s] # "none"
  /\ spc[s] \in Copied \union GonePlace =>
       spc'[s] \in Copied \union GonePlace /\ mem'[s] = mem[s]

\* Such a step keeps the invariant if it keeps what concerns s.
LEMMA ServerFrame ==
  ASSUME IpcInv, NEW s \in Server, Touches(s), TypeOK', FilesSound',
         SegmentSound(s)', SocketSound(s)', InfoSound(s)'
  PROVE  IpcInv'
<1>1. ServerSound'
  BY DEF IpcInv, ServerSound, SegmentSound, SocketSound, InfoSound, Touches
<1>2. ASSUME NEW c \in Client PROVE LoopSound(c)' /\ EntrySound(c)' /\ UpSound(c)'
  <2>1. LoopSound(c) /\ EntrySound(c) /\ UpSound(c) /\ UNCHANGED clientVars
    BY DEF IpcInv, ClientSound, Touches
  <2>2. \A i \in Server : seg[i] # "none" => seg'[i] # "none"
    BY DEF Touches
  <2>3. found[c] \in Server \union {None} /\ \A f \in File : entry[<<c, f>>] \in Entry
    BY DEF IpcInv, TypeOK, Conn
  <2>4. LoopSound(c)'
    BY <2>1, <2>2, <2>3 DEF LoopSound, clientVars, Here
  <2>5. EntrySound(c)'
    BY <2>1, <2>2, <2>3 DEF EntrySound, clientVars, Entry
  <2>6. UpSound(c)'
    <3>1. \A t \in Server : spc[t] \in Copied \union GonePlace =>
                              spc'[t] \in Copied \union GonePlace /\ mem'[t] = mem[t]
      BY DEF Touches
    <3>2. up[c] \subseteq Server BY DEF IpcInv, TypeOK
    <3>3. QED BY <2>1, <3>1, <3>2 DEF UpSound, clientVars
  <2>7. QED BY <2>4, <2>5, <2>6
<1>3. QED BY <1>1, <1>2 DEF IpcInv, ClientSound

\* Closing connections keeps their types.
LEMMA ShutType ==
  ASSUME TypeOK, NEW conns PROVE Shut(conns) \in [Conn -> LinkState]
BY DEF Shut, TypeOK, LinkState

LEMMA CloseAllStep ==
  ASSUME TypeOK, NEW s \in Server, CloseAll(s)
  PROVE  /\ listening' = listening \ {s} /\ listening' \subseteq Server
         /\ backlog' = [backlog EXCEPT ![s] = <<>>] /\ backlog' \in [Server -> Seq(Conn)]
         /\ link' \in [Conn -> LinkState]
         /\ lingering' \subseteq Port
<1>1. link' \in [Conn -> LinkState] BY ShutType DEF CloseAll
<1>2. HeldAfter(s) \subseteq Port BY DEF HeldAfter, Port, TypeOK
<1>3. <<>> \in Seq(Conn) OBVIOUS
<1>4. QED BY <1>1, <1>2, <1>3 DEF CloseAll, TypeOK

LEMMA StartStep ==
  ASSUME IpcInv, NEW s \in Server, create_newServer(s) PROVE IpcInv'
<1> USE IpcAssumption DEF IpcInv
<1>1. TypeOK' BY DEF TypeOK, create_newServer, clientVars, ServerPlace
<1>2. Touches(s) BY DEF TypeOK, create_newServer, clientVars, Touches, Copied, GonePlace
<1>3. FilesSound' BY DEF FilesSound, create_newServer
<1>4. SegmentSound(s)' /\ SocketSound(s)' /\ InfoSound(s)'
  BY DEF ServerSound, SegmentSound, SocketSound, InfoSound, create_newServer, TypeOK,
         Early, Copied, Holding, Attached, Open, Closed
<1>5. QED BY <1>1, <1>2, <1>3, <1>4, ServerFrame

\* With a key of its own, shmget finds or makes the segment of s.
LEMMA CreationStep ==
  ASSUME OwnConfiguration, IpcInv, NEW s \in Server, sharedMemoCreation(s) PROVE IpcInv'
<1> USE IpcAssumption DEF IpcInv
<1>1. WithKey(KeyOf[s]) = {}
  <2>1. seg[s] = "none" BY DEF ServerSound, SegmentSound, sharedMemoCreation, Early
  <2>2. QED BY <2>1 DEF WithKey, OwnConfiguration
<1>2. /\ spc' = [spc EXCEPT ![s] = "allocated"]
      /\ shmid' = [shmid EXCEPT ![s] = s]
      /\ seg' = [seg EXCEPT ![s] = "live"]
      /\ mem' = [mem EXCEPT ![s] = Empty]
      /\ UNCHANGED <<listening, backlog, client_fd, clientVars, info, lingering, link>>
      /\ spc[s] = "listening"
  BY <1>1 DEF sharedMemoCreation
<1>3. TypeOK' BY <1>2 DEF TypeOK, clientVars, ServerPlace
<1>4. Touches(s) BY <1>2 DEF TypeOK, Touches, Copied, GonePlace
<1>5. FilesSound' BY <1>2 DEF FilesSound
<1>6. SegmentSound(s)' /\ SocketSound(s)' /\ InfoSound(s)'
  <2>1. s \in listening
    BY <1>2 DEF ServerSound, SegmentSound, SocketSound, InfoSound, Early, Copied, Holding, Attached, Open, Closed, GonePlace
  <2>2. QED BY <1>2, <2>1 DEF ServerSound, SegmentSound, SocketSound, InfoSound, TypeOK, Early, Copied, Holding, Attached, Open, Closed, GonePlace
<1>7. QED BY <1>3, <1>4, <1>5, <1>6, ServerFrame

LEMMA CreationFailsStep ==
  ASSUME IpcInv, NEW s \in Server, sharedMemoCreationFails(s) PROVE IpcInv'
<1> USE IpcAssumption DEF IpcInv
<1>1. CloseAll(s) BY DEF sharedMemoCreationFails
<1>2. TypeOK'
  BY <1>1, CloseAllStep DEF TypeOK, sharedMemoCreationFails, clientVars, ServerPlace
<1>3. Touches(s)
  BY <1>1, CloseAllStep DEF TypeOK, sharedMemoCreationFails, Touches, Copied, GonePlace
<1>4. FilesSound' BY DEF FilesSound, sharedMemoCreationFails
<1>5. SegmentSound(s)' /\ SocketSound(s)' /\ InfoSound(s)'
  BY <1>1, CloseAllStep
  DEF sharedMemoCreationFails, TypeOK, ServerSound, SegmentSound, SocketSound, InfoSound,
         Early, Copied, Holding, Attached, Open, Closed, GonePlace
<1>6. QED BY <1>2, <1>3, <1>4, <1>5, ServerFrame

\* The steps on a file touch no other server's file.
LEMMA InfoStep ==
  ASSUME OwnConfiguration, IpcInv, NEW s \in Server,
         OpenInfoFile(s) \/ FillInfoFile(s) \/ RemoveInfo(s)
  PROVE  IpcInv'
<1> USE IpcAssumption DEF IpcInv
<1>1. /\ FileOf[s] \in File
      /\ \A t \in Server \ {s} : FileOf[t] # FileOf[s] /\ FileOf[t] \in File
  BY DEF File, OwnConfiguration
<1>2. None \notin Server /\ Empty \notin Server OBVIOUS
<1>3. \E v \in {Empty, s, None} : info' = [info EXCEPT ![FileOf[s]] = v]
  BY DEF OpenInfoFile, FillInfoFile, RemoveInfo
<1>4. TypeOK'
  <2>1. info' \in [File -> Server \union {None, Empty}] BY <1>1, <1>3 DEF TypeOK
  <2>2. spc' \in [Server -> ServerPlace]
    BY DEF TypeOK, OpenInfoFile, FillInfoFile, RemoveInfo, ServerPlace
  <2>3. QED
    BY <2>1, <2>2 DEF TypeOK, OpenInfoFile, FillInfoFile, RemoveInfo, clientVars
<1>5. Touches(s)
  BY <1>1 DEF TypeOK, OpenInfoFile, FillInfoFile, RemoveInfo, Touches, Copied, GonePlace
<1>6. FilesSound'
  BY <1>1, <1>2, <1>3 DEF TypeOK, FilesSound
<1>7. SegmentSound(s)' /\ SocketSound(s)' /\ InfoSound(s)'
  BY <1>1, <1>2
  DEF OpenInfoFile, FillInfoFile, RemoveInfo, TypeOK, ServerSound, SegmentSound, SocketSound, InfoSound,
         Early, Copied, Holding, Attached, Open, Closed, GonePlace
<1>8. QED BY <1>4, <1>5, <1>6, <1>7, ServerFrame

LEMMA CopyStep ==
  ASSUME IpcInv, NEW s \in Server, BeginCopy(s) \/ EndCopy(s) PROVE IpcInv'
<1> USE IpcAssumption DEF IpcInv
<1>1. shmid[s] = s
  BY DEF BeginCopy, EndCopy, CanAttach, ServerSound, SegmentSound, Attached
<1>2. TypeOK'
  <2>1. CASE BeginCopy(s)
    BY <2>1, <1>1 DEF TypeOK, BeginCopy, clientVars, ServerPlace
  <2>2. CASE EndCopy(s)
    BY <2>2, <1>1 DEF TypeOK, EndCopy, clientVars, ServerPlace
  <2>3. QED BY <2>1, <2>2
<1>3. Touches(s) BY <1>1 DEF TypeOK, BeginCopy, EndCopy, Touches, Copied, GonePlace
<1>4. FilesSound' BY DEF FilesSound, BeginCopy, EndCopy
<1>5. SegmentSound(s)' /\ SocketSound(s)' /\ InfoSound(s)'
  BY <1>1 DEF BeginCopy, EndCopy, TypeOK, ServerSound, SegmentSound, SocketSound, InfoSound,
         Early, Copied, Holding, Attached, Open, Closed, GonePlace
<1>6. QED BY <1>2, <1>3, <1>4, <1>5, ServerFrame

LEMMA ConnectionStep ==
  ASSUME IpcInv, NEW s \in Server, Accept(s) \/ Timeout(s) \/ write_to_socket(s)
  PROVE  IpcInv'
<1> USE IpcAssumption DEF IpcInv
<1>1. backlog[s] \in Seq(Conn) BY DEF TypeOK
<1>2. backlog[s] # <<>> => Head(backlog[s]) \in Conn /\ Tail(backlog[s]) \in Seq(Conn)
  BY <1>1
<1>3. TypeOK'
  <2>1. CASE Accept(s)
    BY <2>1, <1>2 DEF TypeOK, Accept, clientVars, ServerPlace
  <2>2. CASE Timeout(s)
    BY <2>2 DEF TypeOK, Timeout, clientVars, ServerPlace
  <2>3. CASE write_to_socket(s)
    BY <2>3 DEF TypeOK, write_to_socket, clientVars, ServerPlace, LinkState
  <2>4. QED BY <2>1, <2>2, <2>3
<1>4. Touches(s)
  BY DEF TypeOK, Accept, Timeout, write_to_socket, Touches, Copied, GonePlace
<1>5. FilesSound' BY DEF FilesSound, Accept, Timeout, write_to_socket
<1>6. SegmentSound(s)' /\ SocketSound(s)' /\ InfoSound(s)'
  BY DEF Accept, Timeout, write_to_socket, TypeOK, ServerSound, SegmentSound, SocketSound, InfoSound,
         Early, Copied, Holding, Attached, Open, Closed, GonePlace
<1>7. QED BY <1>3, <1>4, <1>5, <1>6, ServerFrame

\* The end of a server, by an error or by a signal.
LEMMA BreakStep ==
  ASSUME IpcInv, NEW s \in Server, FailAndExit(s) \/ Kill(s) PROVE IpcInv'
<1> USE IpcAssumption DEF IpcInv
<1>1. CloseAll(s) BY DEF FailAndExit, freeResources, Kill
<1>2. /\ spc' = [spc EXCEPT ![s] = "failed"] \/ spc' = [spc EXCEPT ![s] = "killed"]
      /\ UNCHANGED <<client_fd, shmid, clientVars, mem, info>>
  BY DEF FailAndExit, Kill
<1>3. seg' = seg \/ (shmid[s] = s /\ seg[s] # "none" /\ seg' = [seg EXCEPT ![s] = "removed"])
  BY DEF FailAndExit, freeResources, Kill, ServerSound, SegmentSound, Removed, TypeOK
<1>4. spc'[s] = "failed" => seg'[s] # "live"
  <2>1. CASE FailAndExit(s)
    <3>1. CASE shmid[s] = None
      BY <2>1, <3>1 DEF FailAndExit, freeResources, ServerSound, SegmentSound
    <3>2. CASE shmid[s] = s
      BY <2>1, <3>2 DEF FailAndExit, freeResources, Exists, Removed, TypeOK
    <3>3. QED BY <3>1, <3>2 DEF ServerSound, SegmentSound
  <2>2. CASE Kill(s) BY <2>2 DEF Kill, TypeOK
  <2>3. QED BY <2>1, <2>2
<1>5. TypeOK'
  <2>1. seg' \in [Server -> {"none", "live", "removed"}] BY <1>3 DEF TypeOK
  <2>2. spc' \in [Server -> ServerPlace] BY <1>2 DEF TypeOK, ServerPlace
  <2>3. QED BY <1>1, <1>2, <2>1, <2>2, CloseAllStep DEF TypeOK, clientVars
<1>6. Touches(s)
  BY <1>1, <1>2, <1>3, CloseAllStep DEF TypeOK, Touches, Copied, GonePlace
<1>7. FilesSound' BY <1>2 DEF FilesSound
<1>8. SegmentSound(s)' /\ SocketSound(s)' /\ InfoSound(s)'
  BY <1>1, <1>2, <1>3, <1>4, CloseAllStep
  DEF TypeOK, ServerSound, SegmentSound, SocketSound, InfoSound,
         Early, Copied, Holding, Attached, Open, Closed, GonePlace
<1>9. QED BY <1>5, <1>6, <1>7, <1>8, ServerFrame

LEMMA ShutdownStep ==
  ASSUME IpcInv, NEW s \in Server, CloseListener(s) \/ CloseClient(s) \/ RemoveSegment(s)
  PROVE  IpcInv'
<1> USE IpcAssumption DEF IpcInv
<1>1. spc[s] = "disconnected" => shmid[s] = s /\ seg[s] = "live"
  BY DEF ServerSound, SegmentSound, Attached, Holding
<1>2. RemoveSegment(s) => seg' = [seg EXCEPT ![s] = "removed"]
  <2>1. Removed(s) = [seg EXCEPT ![s] = "removed"] BY DEF Removed, TypeOK
  <2>2. QED BY <1>1, <2>1 DEF RemoveSegment, Exists
<1>3. TypeOK'
  <2>1. CASE CloseListener(s)
    BY <2>1, ShutType DEF TypeOK, CloseListener, clientVars, ServerPlace
  <2>2. CASE CloseClient(s)
    <3>1. HeldAfter(s) \subseteq Port BY DEF HeldAfter, Port, TypeOK
    <3>2. QED BY <2>2, <3>1, ShutType DEF TypeOK, CloseClient, clientVars, ServerPlace
  <2>3. CASE RemoveSegment(s)
    BY <2>3, <1>2 DEF TypeOK, RemoveSegment, clientVars, ServerPlace
  <2>4. QED BY <2>1, <2>2, <2>3
<1>4. Touches(s)
  BY <1>2 DEF TypeOK, CloseListener, CloseClient, RemoveSegment, Touches, Copied, GonePlace
<1>5. FilesSound' BY DEF FilesSound, CloseListener, CloseClient, RemoveSegment
<1>6. SegmentSound(s)' /\ SocketSound(s)' /\ InfoSound(s)'
  BY <1>1, <1>2
  DEF CloseListener, CloseClient, RemoveSegment, TypeOK, ServerSound, SegmentSound, SocketSound, InfoSound,
         Early, Copied, Holding, Attached, Open, Closed, GonePlace
<1>7. QED BY <1>3, <1>4, <1>5, <1>6, ServerFrame

-----------------------------------------------------------------------------
(* Steps of clients.                                                        *)

\* A step of client c may enter a queue of a server that listens.
Visits(c) ==
  /\ UNCHANGED <<spc, listening, client_fd, shmid, seg, mem, info, lingering>>
  /\ \A s \in Server \ listening : backlog'[s] = backlog[s]
  /\ \A d \in Client \ {c} :
       /\ cpc'[d] = cpc[d] /\ todo'[d] = todo[d] /\ cur'[d] = cur[d]
       /\ found'[d] = found[d] /\ up'[d] = up[d]
       /\ \A f \in File : entry'[<<d, f>>] = entry[<<d, f>>]

LEMMA ClientFrame ==
  ASSUME IpcInv, NEW c \in Client, Visits(c), TypeOK',
         LoopSound(c)', EntrySound(c)', UpSound(c)'
  PROVE  IpcInv'
<1>1. ServerSound'
  BY DEF IpcInv, ServerSound, SegmentSound, SocketSound, InfoSound, Visits
<1>2. FilesSound' BY DEF IpcInv, FilesSound, Visits
<1>3. ASSUME NEW d \in Client, d # c PROVE LoopSound(d)' /\ EntrySound(d)' /\ UpSound(d)'
  <2>1. LoopSound(d) /\ EntrySound(d) /\ UpSound(d) BY DEF IpcInv, ClientSound
  <2>2. /\ cpc'[d] = cpc[d] /\ todo'[d] = todo[d] /\ cur'[d] = cur[d]
        /\ found'[d] = found[d] /\ up'[d] = up[d]
        /\ \A f \in File : entry'[<<d, f>>] = entry[<<d, f>>]
        /\ seg' = seg /\ mem' = mem /\ spc' = spc
    BY <1>3 DEF Visits
  <2>3. todo[d] \subseteq File BY DEF IpcInv, TypeOK
  <2>4. LoopSound(d)' BY <2>1, <2>2, <2>3 DEF LoopSound, Here, Visiting
  <2>5. EntrySound(d)' BY <2>1, <2>2 DEF EntrySound
  <2>6. UpSound(d)' BY <2>1, <2>2 DEF UpSound
  <2>7. QED BY <2>4, <2>5, <2>6
<1>4. QED BY <1>1, <1>2, <1>3 DEF IpcInv, ClientSound

\* What the lemmas below use of the invariant.
LEMMA AtClient ==
  ASSUME IpcInv, NEW c \in Client
  PROVE  /\ TypeOK /\ FilesSound
         /\ LoopSound(c) /\ EntrySound(c) /\ UpSound(c)
         /\ \A f \in File : <<c, f>> \in Conn /\ entry[<<c, f>>] \in Entry
         /\ NoEntry \in Entry
         /\ None \notin Server /\ Empty \notin Server
         /\ None # Empty /\ None # Torn
BY IpcAssumption DEF IpcInv, ClientSound, TypeOK, Conn, NoEntry, Entry, Msg

LEMMA EntryChange ==
  ASSUME TypeOK, NEW c \in Client, NEW f \in File, NEW e \in Entry,
         entry' = [entry EXCEPT ![<<c, f>>] = e]
  PROVE  /\ entry' \in [Conn -> Entry]
         /\ entry'[<<c, f>>] = e
         /\ \A g \in File \ {f} : entry'[<<c, g>>] = entry[<<c, g>>]
         /\ \A d \in Client \ {c}, g \in File : entry'[<<d, g>>] = entry[<<d, g>>]
BY DEF TypeOK, Conn

LEMMA OpenStep ==
  ASSUME IpcInv, NEW c \in Client, OpenDirectory(c) PROVE IpcInv'
<1> USE AtClient DEF OpenDirectory, worldVars, serverVars
<1>1. TypeOK' BY DEF TypeOK, ClientPlace
<1>2. Visits(c) BY DEF TypeOK, Visits
<1>3. LoopSound(c)' BY DEF LoopSound, TypeOK, Visiting
<1>4. EntrySound(c)' BY DEF LoopSound, EntrySound, NoEntry
<1>5. UpSound(c)'
  BY DEF UpSound, TypeOK, IpcInv, ServerSound, SegmentSound, Serving, Copied, GonePlace
<1>6. QED BY <1>1, <1>2, <1>3, <1>4, <1>5, ClientFrame

LEMMA ReadStep ==
  ASSUME IpcInv, NEW c \in Client, ReadInfoFile(c) PROVE IpcInv'
<1> USE AtClient DEF worldVars, serverVars
<1>1. PICK f \in todo[c] :
        /\ info[f] # None
        /\ cur' = [cur EXCEPT ![c] = f]
        /\ todo' = [todo EXCEPT ![c] = @ \ {f}]
        /\ entry' = [entry EXCEPT ![<<c, f>>].src = info[f]]
  BY DEF ReadInfoFile
<1>2. f \in File /\ entry[<<c, f>>] = NoEntry /\ cpc[c] = "scanning"
  BY DEF TypeOK, LoopSound, ReadInfoFile
<1> DEFINE e == [NoEntry EXCEPT !.src = info[f]]
<1>3. e \in Entry /\ e.src = info[f] /\ e.shm = None /\ e.shmMsg = None
  BY <1>1, <1>2 DEF NoEntry, Entry, TypeOK, Msg
<1>4. entry' = [entry EXCEPT ![<<c, f>>] = e]
  BY <1>1, <1>2
<1> HIDE DEF e
<1>5. /\ entry' \in [Conn -> Entry]
      /\ entry'[<<c, f>>] = e
      /\ \A g \in File \ {f} : entry'[<<c, g>>] = entry[<<c, g>>]
      /\ \A d \in Client \ {c}, g \in File : entry'[<<d, g>>] = entry[<<d, g>>]
  BY <1>2, <1>3, <1>4, EntryChange
<1>6. /\ cpc'[c] = "connecting" /\ cur'[c] = f /\ todo'[c] = todo[c] \ {f}
      /\ todo[c] \subseteq File
      /\ UNCHANGED <<found, up, seg, mem, spc, info>>
  BY <1>1, <1>2 DEF TypeOK, ReadInfoFile
<1>7. TypeOK' BY <1>1, <1>2, <1>5 DEF TypeOK, ReadInfoFile, ClientPlace
<1>8. Visits(c)
  <2>1. UNCHANGED <<spc, listening, backlog, client_fd, shmid, seg, mem, info, lingering>>
    BY DEF ReadInfoFile
  <2>2. \A d \in Client \ {c} : cpc'[d] = cpc[d] /\ todo'[d] = todo[d] /\ cur'[d] = cur[d]
    BY <1>1 DEF TypeOK, ReadInfoFile
  <2>3. UNCHANGED <<found, up>> BY DEF ReadInfoFile
  <2>4. QED BY <1>5, <2>1, <2>2, <2>3 DEF Visits
<1>9. LoopSound(c)'
  <2>1. \A g \in todo'[c] : g # f /\ g \in File /\ entry'[<<c, g>>] = NoEntry
    BY <1>2, <1>5, <1>6 DEF LoopSound
  <2>2. Here(c)' = <<c, f>> BY <1>6 DEF Here
  <2>3. QED BY <1>2, <1>3, <1>5, <1>6, <2>1, <2>2 DEF LoopSound, Visiting
<1>10. EntrySound(c)'
  <2>1. e.src \in Server => FileOf[e.src] = f BY <1>2, <1>3 DEF FilesSound
  <2>2. QED BY <1>3, <1>5, <1>6, <2>1 DEF EntrySound
<1>11. UpSound(c)' BY <1>6 DEF UpSound
<1>12. QED BY <1>7, <1>8, <1>9, <1>10, <1>11, ClientFrame

\* The steps that leave the entries alone.
LEMMA ScanStep ==
  ASSUME OwnConfiguration, IpcInv, NEW c \in Client,
         FileVanished(c) \/ Locate(c) \/ Sort(c) \/ disconnect(c)
  PROVE  IpcInv'
<1> USE AtClient DEF worldVars, serverVars, FileVanished, Sort, disconnect
<1>1. ASSUME Locate(c)
      PROVE  /\ found' \in [Client -> Server \union {None}]
             /\ \A d \in Client \ {c} : found'[d] = found[d]
             /\ found'[c] # None =>
                  found'[c] = entry[Here(c)].src /\ seg[found'[c]] # "none"
  <2>1. Here(c) \in Conn /\ entry[Here(c)] \in Entry
    BY <1>1 DEF Here, LoopSound, Visiting, Locate
  <2>2. \A i \in Server, k \in Server : i \in WithKey(KeyOf[k]) => i = k /\ seg[i] = "live"
    BY DEF WithKey, OwnConfiguration
  <2>3. PICK i \in Server \union {None} :
          /\ found' = [found EXCEPT ![c] = i]
          /\ i # None => i = entry[Here(c)].src /\ seg[i] = "live"
    <3>1. CASE entry[Here(c)].src \in Server
      BY <1>1, <2>2, <3>1 DEF Locate, WithKey
    <3>2. CASE entry[Here(c)].src \notin Server
      BY <1>1, <3>2 DEF Locate
    <3>3. QED BY <3>1, <3>2
  <2>4. QED BY <2>3 DEF TypeOK
<1>2. TypeOK'
  <2>1. CASE Locate(c) BY <2>1, <1>1 DEF TypeOK, ClientPlace, Locate
  <2>2. CASE FileVanished(c) \/ Sort(c) \/ disconnect(c)
    BY <2>2 DEF TypeOK, ClientPlace
  <2>3. QED BY <2>1, <2>2
<1>3. Visits(c)
  <2>1. CASE Locate(c) BY <2>1, <1>1 DEF TypeOK, Visits, Locate
  <2>2. CASE FileVanished(c) \/ Sort(c) \/ disconnect(c)
    BY <2>2 DEF TypeOK, Visits
  <2>3. QED BY <2>1, <2>2
<1>4. LoopSound(c)'
  <2>1. CASE Locate(c)
    <3>1. cpc[c] = "locating" /\ cpc'[c] = "attaching" /\ UNCHANGED <<cur, todo, entry, seg>>
      BY <2>1 DEF Locate, TypeOK
    <3>2. QED BY <2>1, <1>1, <3>1 DEF LoopSound, Visiting, Here
  <2>2. CASE FileVanished(c) \/ Sort(c) \/ disconnect(c)
    BY <2>2 DEF TypeOK, LoopSound, Visiting
  <2>3. QED BY <2>1, <2>2
<1>5. EntrySound(c)' BY DEF EntrySound, Locate
<1>6. UpSound(c)' BY DEF UpSound, Locate
<1>7. QED BY <1>2, <1>3, <1>4, <1>5, <1>6, ClientFrame

LEMMA ConnectStep ==
  ASSUME IpcInv, NEW c \in Client, socketConnection(c) PROVE IpcInv'
<1> USE AtClient
<1>1. /\ cpc[c] = "connecting" /\ cur[c] \in File /\ Here(c) = <<c, cur[c]>>
      /\ Here(c) \in Conn /\ entry[Here(c)] \in Entry
  BY DEF socketConnection, LoopSound, Visiting, Here
<1>2. PICK fd \in Server \union {None} :
        /\ entry' = [entry EXCEPT ![Here(c)] = [entry[Here(c)] EXCEPT !.fd = fd]]
        /\ \A s \in Server \ listening : backlog'[s] = backlog[s]
        /\ backlog' \in [Server -> Seq(Conn)] /\ link' \in [Conn -> LinkState]
  <2> DEFINE src == entry[Here(c)].src
             open == {s \in listening : src \in Server /\ PortOf[s] = PortOf[src]
                                          /\ Len(backlog[s]) < QueueLimit}
  <2>1. CASE open = {} /\ UNCHANGED <<entry, backlog, link>>
    <3>1. entry[Here(c)].fd \in Server \union {None} BY <1>1 DEF Entry
    <3>2. [entry[Here(c)] EXCEPT !.fd = entry[Here(c)].fd] = entry[Here(c)]
      BY <1>1 DEF Entry
    <3>3. entry' = [entry EXCEPT ![Here(c)] = entry[Here(c)]]
      BY <2>1, <1>1 DEF TypeOK
    <3>4. QED BY <2>1, <3>1, <3>2, <3>3 DEF TypeOK
  <2>2. ASSUME NEW s \in open,
               entry' = [entry EXCEPT ![Here(c)].fd = s],
               backlog' = [backlog EXCEPT ![s] = Append(@, Here(c))],
               link' = [link EXCEPT ![Here(c)] = "open"]
        PROVE  /\ entry' = [entry EXCEPT ![Here(c)] = [entry[Here(c)] EXCEPT !.fd = s]]
               /\ \A t \in Server \ listening : backlog'[t] = backlog[t]
               /\ backlog' \in [Server -> Seq(Conn)] /\ link' \in [Conn -> LinkState]
    <3>1. s \in listening /\ s \in Server BY DEF TypeOK
    <3>2. Append(backlog[s], Here(c)) \in Seq(Conn) BY <1>1, <3>1 DEF TypeOK
    <3>3. QED BY <1>1, <2>2, <3>1, <3>2 DEF TypeOK, LinkState
  <2>3. open \subseteq Server BY DEF TypeOK
  <2>4. QED BY <2>1, <2>2, <2>3 DEF socketConnection
<1> DEFINE e == [entry[Here(c)] EXCEPT !.fd = fd]
<1>3. /\ e \in Entry /\ e.src = entry[Here(c)].src
      /\ e.shm = entry[Here(c)].shm /\ e.shmMsg = entry[Here(c)].shmMsg
  BY <1>1 DEF Entry
<1>4. entry' = [entry EXCEPT ![<<c, cur[c]>>] = e] BY <1>1, <1>2
<1> HIDE DEF e
<1>5. /\ entry' \in [Conn -> Entry]
      /\ entry'[<<c, cur[c]>>] = e
      /\ \A g \in File \ {cur[c]} : entry'[<<c, g>>] = entry[<<c, g>>]
      /\ \A d \in Client \ {c}, g \in File : entry'[<<d, g>>] = entry[<<d, g>>]
  BY <1>1, <1>3, <1>4, EntryChange
<1>6. /\ cpc'[c] = "locating" /\ todo[c] \subseteq File
      /\ UNCHANGED <<cur, todo, found, up, seg, mem, spc>>
  BY DEF TypeOK, socketConnection
<1>7. TypeOK' BY <1>2, <1>5 DEF TypeOK, socketConnection, ClientPlace
<1>8. Visits(c) BY <1>2, <1>5 DEF TypeOK, Visits, socketConnection
<1>9. LoopSound(c)' BY <1>1, <1>3, <1>5, <1>6 DEF LoopSound, Visiting, Here
<1>10. EntrySound(c)' BY <1>1, <1>3, <1>5, <1>6 DEF EntrySound
<1>11. UpSound(c)' BY <1>6 DEF UpSound
<1>12. QED BY <1>7, <1>8, <1>9, <1>10, <1>11, ClientFrame

\* The segment that is attached was found with the key of the entry's server.
LEMMA AttachStep ==
  ASSUME IpcInv, NEW c \in Client, sharedMemoAt(c) PROVE IpcInv'
<1> USE AtClient DEF worldVars, serverVars
<1>1. /\ cpc[c] = "attaching" /\ cur[c] \in File /\ cur[c] \notin todo[c]
      /\ Here(c) = <<c, cur[c]>> /\ entry[Here(c)] \in Entry
      /\ entry[Here(c)].shmMsg = None
      /\ found[c] # None => found[c] = entry[Here(c)].src /\ seg[found[c]] # "none"
  BY DEF sharedMemoAt, LoopSound, Visiting, Here
<1> DEFINE i == IF found[c] # None /\ Exists(found[c]) THEN found[c] ELSE None
           e == [entry[Here(c)] EXCEPT !.shm = i]
<1>2. i \in Server \union {None} /\ (i # None => i = entry[Here(c)].src /\ seg[i] # "none")
  BY <1>1 DEF TypeOK
<1>3. entry' = [entry EXCEPT ![<<c, cur[c]>>] = e] BY <1>1 DEF sharedMemoAt
<1> HIDE DEF i
<1>4. e \in Entry /\ e.src = entry[Here(c)].src /\ e.shm = i /\ e.shmMsg = None
  BY <1>1, <1>2 DEF Entry
<1> HIDE DEF e
<1>5. /\ entry' \in [Conn -> Entry]
      /\ entry'[<<c, cur[c]>>] = e
      /\ \A g \in File \ {cur[c]} : entry'[<<c, g>>] = entry[<<c, g>>]
      /\ \A d \in Client \ {c}, g \in File : entry'[<<d, g>>] = entry[<<d, g>>]
  BY <1>1, <1>3, <1>4, EntryChange
<1>6. /\ cpc'[c] = "scanning" /\ todo[c] \subseteq File
      /\ UNCHANGED <<todo, up, seg, mem, spc>>
  BY DEF TypeOK, sharedMemoAt
<1>7. TypeOK' BY <1>5 DEF TypeOK, sharedMemoAt, ClientPlace
<1>8. Visits(c) BY <1>5 DEF TypeOK, Visits, sharedMemoAt
<1>9. LoopSound(c)' BY <1>1, <1>5, <1>6 DEF LoopSound, Visiting
<1>10. EntrySound(c)' BY <1>1, <1>2, <1>4, <1>5, <1>6 DEF EntrySound
<1>11. UpSound(c)' BY <1>6 DEF UpSound
<1>12. QED BY <1>7, <1>8, <1>9, <1>10, <1>11, ClientFrame

\* A server that served when the directory was opened had copied its message.
LEMMA ReadMessageStep ==
  ASSUME IpcInv, NEW c \in Client, get_message_from_shm(c) PROVE IpcInv'
<1> USE AtClient DEF worldVars, serverVars
<1>1. PICK f \in todo[c] :
        /\ cur' = [cur EXCEPT ![c] = f]
        /\ entry' = [entry EXCEPT ![<<c, f>>].shmMsg =
                       IF entry[<<c, f>>].shm = None THEN Empty
                       ELSE mem[entry[<<c, f>>].shm]]
  BY DEF get_message_from_shm
<1>2. f \in File /\ entry[<<c, f>>] \in Entry BY DEF TypeOK
<1> DEFINE m == IF entry[<<c, f>>].shm = None THEN Empty ELSE mem[entry[<<c, f>>].shm]
           e == [entry[<<c, f>>] EXCEPT !.shmMsg = m]
<1>3. m \in Msg BY <1>2 DEF Entry, Msg, TypeOK
<1>4. entry[<<c, f>>].shm # None => m = mem[entry[<<c, f>>].shm] OBVIOUS
<1>5. entry' = [entry EXCEPT ![<<c, f>>] = e] BY <1>1
<1> HIDE DEF m
<1>6. /\ e \in Entry /\ e.src = entry[<<c, f>>].src
      /\ e.shm = entry[<<c, f>>].shm /\ e.shmMsg = m
  BY <1>2, <1>3 DEF Entry
<1> HIDE DEF e
<1>7. /\ entry' \in [Conn -> Entry]
      /\ entry'[<<c, f>>] = e
      /\ \A g \in File \ {f} : entry'[<<c, g>>] = entry[<<c, g>>]
      /\ \A d \in Client \ {c}, g \in File : entry'[<<d, g>>] = entry[<<d, g>>]
  BY <1>2, <1>5, <1>6, EntryChange
<1>8. /\ cpc'[c] = "receiving" /\ cur'[c] = f
      /\ UNCHANGED <<todo, up, seg, mem, spc>>
  BY <1>1 DEF TypeOK, get_message_from_shm
<1>9. TypeOK' BY <1>1, <1>2, <1>7 DEF TypeOK, get_message_from_shm, ClientPlace
<1>10. Visits(c) BY <1>1, <1>7 DEF TypeOK, Visits, get_message_from_shm
<1>11. LoopSound(c)' BY <1>2, <1>8 DEF LoopSound, Visiting
<1>12. EntrySound(c)' BY <1>2, <1>4, <1>6, <1>7, <1>8 DEF EntrySound, UpSound
<1>13. UpSound(c)' BY <1>8 DEF UpSound
<1>14. QED BY <1>9, <1>10, <1>11, <1>12, <1>13, ClientFrame

LEMMA ReceiveStep ==
  ASSUME IpcInv, NEW c \in Client, get_message_from_socket(c) PROVE IpcInv'
<1> USE AtClient DEF worldVars, serverVars
<1>1. cur[c] \in File /\ Here(c) = <<c, cur[c]>> /\ entry[Here(c)] \in Entry
  BY DEF get_message_from_socket, LoopSound, Here
<1> DEFINE m == IF link[Here(c)] = "closed" THEN entry[Here(c)].fd ELSE Empty
           e == [entry[Here(c)] EXCEPT !.sockMsg = m]
<1>2. m \in Msg BY <1>1 DEF Entry, Msg
<1>3. entry' = [entry EXCEPT ![<<c, cur[c]>>] = e] BY <1>1 DEF get_message_from_socket
<1> HIDE DEF m
<1>4. /\ e \in Entry /\ e.src = entry[Here(c)].src
      /\ e.shm = entry[Here(c)].shm /\ e.shmMsg = entry[Here(c)].shmMsg
  BY <1>1, <1>2 DEF Entry
<1> HIDE DEF e
<1>5. /\ entry' \in [Conn -> Entry]
      /\ entry'[<<c, cur[c]>>] = e
      /\ \A g \in File \ {cur[c]} : entry'[<<c, g>>] = entry[<<c, g>>]
      /\ \A d \in Client \ {c}, g \in File : entry'[<<d, g>>] = entry[<<d, g>>]
  BY <1>1, <1>3, <1>4, EntryChange
<1>6. cpc'[c] = "reading" /\ UNCHANGED <<up, seg, mem, spc>>
  BY DEF TypeOK, get_message_from_socket
<1>7. TypeOK' BY <1>5 DEF TypeOK, get_message_from_socket, ClientPlace
<1>8. Visits(c) BY <1>5 DEF TypeOK, Visits, get_message_from_socket
<1>9. LoopSound(c)' BY <1>6 DEF LoopSound, Visiting
<1>10. EntrySound(c)' BY <1>1, <1>4, <1>5, <1>6 DEF EntrySound
<1>11. UpSound(c)' BY <1>6 DEF UpSound
<1>12. QED BY <1>7, <1>8, <1>9, <1>10, <1>11, ClientFrame

-----------------------------------------------------------------------------
(* The theorems.                                                            *)

LEMMA NewEntries ==
  ASSUME NEW c \in Client, None \notin Server, \A f \in File : entry[<<c, f>>] = NoEntry
  PROVE  EntrySound(c)
BY DEF EntrySound, NoEntry

LEMMA InitSound == Init => IpcInv
<1> SUFFICES ASSUME Init PROVE IpcInv OBVIOUS
<1> USE IpcAssumption DEF Init
<1>1. TypeOK
  <2>1. <<>> \in Seq(Conn) OBVIOUS
  <2>2. NoEntry \in Entry BY DEF NoEntry, Entry, Msg
  <2>3. spc \in [Server -> {"never", "off"}] /\ cpc \in [Client -> {"never", "off"}]
    OBVIOUS
  <2>4. QED BY <2>1, <2>2, <2>3 DEF TypeOK, ServerPlace, ClientPlace, LinkState
<1>2. ASSUME NEW s \in Server PROVE SegmentSound(s) /\ SocketSound(s) /\ InfoSound(s)
  <2>1. spc[s] \in {"never", "off"} /\ FileOf[s] \in File BY DEF File
  <2>2. QED BY <2>1 DEF SegmentSound, SocketSound, InfoSound,
         Early, Copied, Holding, Attached, Open, Closed, GonePlace
<1>3. FilesSound BY DEF FilesSound
<1>4. ASSUME NEW c \in Client PROVE LoopSound(c) /\ EntrySound(c) /\ UpSound(c)
  <2>1. cpc[c] \in {"never", "off"} /\ \A f \in File : entry[<<c, f>>] = NoEntry
    BY DEF Conn
  <2>2. LoopSound(c) BY <2>1 DEF LoopSound, Visiting
  <2>3. None \notin Server OBVIOUS
  <2>4. EntrySound(c) BY <2>1, <2>3, NewEntries
  <2>5. UpSound(c) BY DEF UpSound
  <2>6. QED BY <2>2, <2>4, <2>5
<1>5. QED BY <1>1, <1>2, <1>3, <1>4 DEF IpcInv, ServerSound, ClientSound

LEMMA ReleaseStep ==
  ASSUME IpcInv, NEW p \in Port, PortReleased(p) PROVE IpcInv'
<1>1. TypeOK' BY DEF IpcInv, TypeOK, PortReleased, serverVars, clientVars
<1>2. ServerSound' /\ FilesSound'
  BY DEF IpcInv, PortReleased, serverVars, ServerSound, FilesSound,
         SegmentSound, SocketSound, InfoSound
<1>3. ClientSound'
  BY DEF IpcInv, PortReleased, serverVars, clientVars, ClientSound, LoopSound, EntrySound,
         UpSound, Here
<1>4. QED BY <1>1, <1>2, <1>3 DEF IpcInv

LEMMA StutterStep == IpcInv /\ UNCHANGED vars => IpcInv'
BY DEF IpcInv, TypeOK, ServerSound, SegmentSound, SocketSound, InfoSound, FilesSound,
       ClientSound, LoopSound, EntrySound, UpSound, Here, vars, serverVars, clientVars

LEMMA NextSound ==
  ASSUME OwnConfiguration, IpcInv, [Next]_vars PROVE IpcInv'
<1>1. ASSUME NEW s \in Server, StartServer(s) \/ ServerStep(s) \/ Kill(s) PROVE IpcInv'
  BY <1>1, StartStep, CreationStep, CreationFailsStep, InfoStep, CopyStep, ConnectionStep,
     BreakStep, ShutdownStep DEF StartServer, ServerStep
<1>2. ASSUME NEW c \in Client, OpenDirectory(c) \/ ClientStep(c) PROVE IpcInv'
  BY <1>2, OpenStep, ReadStep, ScanStep, ConnectStep, AttachStep, ReadMessageStep,
     ReceiveStep DEF ClientStep
<1>3. QED BY <1>1, <1>2, ReleaseStep, StutterStep DEF Next

LEMMA Consequences ==
  ASSUME OwnConfiguration, IpcInv
  PROVE  TypeOK /\ AvailableIsListed /\ ServersCleanUp /\ StableMessageWhole
<1>1. AvailableIsListed /\ ServersCleanUp
  BY IpcAssumption DEF IpcInv, TypeOK, ServerSound, SegmentSound, SocketSound, InfoSound,
     AvailableIsListed, ServersCleanUp, Serving,
     Early, Copied, Holding, Attached, Open, Closed, GonePlace
<1>2. ASSUME NEW c \in Client, NEW s \in up[c],
             entry[<<c, FileOf[s]>>].shm # None, entry[<<c, FileOf[s]>>].shmMsg # None
      PROVE  entry[<<c, FileOf[s]>>].shmMsg = s
  <2>1. /\ EntrySound(c) /\ s \in Server /\ FileOf[s] \in File
        /\ entry[<<c, FileOf[s]>>] \in Entry
    BY IpcAssumption DEF IpcInv, ClientSound, TypeOK, Conn, File
  <2> DEFINE i == entry[<<c, FileOf[s]>>].shm
  <2>2. i \in Server BY <1>2, <2>1 DEF Entry
  <2>3. entry[<<c, FileOf[s]>>].src = i /\ FileOf[i] = FileOf[s]
    BY <1>2, <2>1, <2>2 DEF EntrySound
  <2>4. i = s BY <2>1, <2>2, <2>3 DEF OwnConfiguration
  <2>5. QED BY <1>2, <2>1, <2>4 DEF EntrySound
<1>3. QED BY <1>1, <1>2 DEF IpcInv, StableMessageWhole

\* In every state of a group of servers that share neither key nor file, the state
\* is well typed and the invariant holds (server.cpp, client.cpp as a whole).
THEOREM IpcSafe == ASSUME OwnConfiguration PROVE Spec => []IpcInv
<1>1. IpcInv /\ [Next]_vars => IpcInv' BY NextSound
<1>2. QED BY <1>1, InitSound, PTL DEF Spec

\* The state is well typed.
THEOREM IpcTyped == ASSUME OwnConfiguration PROVE Spec => []TypeOK
<1>1. IpcInv => TypeOK BY Consequences
<1>2. QED BY <1>1, IpcSafe, PTL

\* A server that serves can be found: its own info file is published and its live
\* segment holds its whole message, whatever the other servers do (run, shutdown).
THEOREM IpcListed == ASSUME OwnConfiguration PROVE Spec => []AvailableIsListed
<1>1. IpcInv => AvailableIsListed BY Consequences
<1>2. QED BY <1>1, IpcSafe, PTL

\* A server that has ended, well or by an error, leaves no socket and no segment
\* that can be found (freeResources, shutdown).
THEOREM IpcCleansUp == ASSUME OwnConfiguration PROVE Spec => []ServersCleanUp
<1>1. IpcInv => ServersCleanUp BY Consequences
<1>2. QED BY <1>1, IpcSafe, PTL

\* A client that saw a server serve never reports a part of its message
\* (get_message_from_shm against write_to_shm and shutdown).
THEOREM IpcMessageWhole == ASSUME OwnConfiguration PROVE Spec => []StableMessageWhole
<1>1. IpcInv => StableMessageWhole BY Consequences
<1>2. QED BY <1>1, IpcSafe, PTL

=============================================================================
