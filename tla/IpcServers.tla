----------------------------- MODULE IpcServers -----------------------------
(***************************************************************************)
(* Linux_Multi_Server_Ipc: servers that publish themselves by an info file  *)
(* and answer on a TCP socket and in a System V segment (server.cpp), and   *)
(* clients that scan the directory of info files (client.cpp).  A step is   *)
(* one system call with an effect that another process can see.            *)
(***************************************************************************)
EXTENDS Integers, Sequences, FiniteSets

CONSTANTS
  Server,  \* processes that run server.cpp; two may have one configuration
  Client,  \* processes that run client.cpp
  PortOf, KeyOf, FileOf, \* a server's configuration; file names are numbers, in their order
  Failing, \* pairs of a server and the place at which its next call may fail
  Mortal,  \* servers that may be killed
  Casts,   \* sets of processes: those of one of them are run, the others never
  None,    \* -1, a file that does not exist, nothing
  Empty,   \* the empty string, an empty file
  Torn     \* a message of which a part is there

File == {FileOf[s] : s \in Server}
Port == {PortOf[s] : s \in Server}
Conn == Client \X File \* a client makes one connection for each info file

ServerPlace == {"never", "off", "listening", "allocated", "opened", "published", "copying",
                "waiting", "accepted", "asleep", "unlistened", "disconnected",
                "unallocated", "ended", "failed", "killed"}
FailPlace == {"off", "listening", "allocated", "opened", "published", "waiting", "accepted"}

\* listen (server_fd, 3): one more than that may wait.
QueueLimit == 4

ASSUME IpcAssumption ==
  /\ IsFiniteSet(Server) /\ IsFiniteSet(Client)
  /\ KeyOf \in [Server -> Nat] /\ PortOf \in [Server -> Nat] /\ FileOf \in [Server -> Nat]
  /\ Failing \subseteq Server \X FailPlace
  /\ Mortal \subseteq Server
  /\ Casts \subseteq SUBSET (Server \union Client)
  /\ {None, Empty, Torn} \intersect (Server \union Conn) = {}
  /\ None \notin {Empty, Torn} /\ Empty # Torn

VARIABLES
  spc,       \* where each server is
  listening, \* the servers whose server_fd is open
  backlog,   \* by server: the connections that accept() has not taken
  client_fd, \* by server: the connection it took, kept when it is closed
  shmid,     \* by server: its segment; a segment is named by the server that made it
  seg,       \* by segment: "none", "live", or "removed" (IPC_RMID)
  mem,       \* by segment: the message in it, named by its server
  info,      \* by file: the server that filled it, Empty or None
  lingering, \* the ports that a closed connection still holds (TIME_WAIT)
  link,      \* by connection: what the client can read of it
  cpc,       \* where each client is
  todo,      \* by client: the files that its loop has not come to
  cur,       \* by client: the file it is at
  found,     \* by client: what shmget gave
  entry,     \* by connection: the client's live_server_info, and what it has read
  up         \* history, by client: the servers that served when it opened the directory

serverVars == <<spc, listening, backlog, client_fd, shmid>>
clientVars == <<cpc, todo, cur, found, entry, up>>
vars == <<serverVars, clientVars, seg, mem, info, lingering, link>>

Msg == Server \union {None, Empty, Torn}
Entry == [src : Server \union {None, Empty}, fd : Server \union {None},
          shm : Server \union {None}, shmMsg : Msg, sockMsg : Msg]
NoEntry == [src |-> None, fd |-> None, shm |-> None, shmMsg |-> None, sockMsg |-> None]
LinkState == {"none", "open", "written", "reset", "closed"}
ClientPlace == {"never", "off", "scanning", "connecting", "locating", "attaching",
                "reading", "receiving", "ended", "failed"}

TypeOK ==
  /\ spc \in [Server -> ServerPlace]
  /\ listening \subseteq Server
  /\ backlog \in [Server -> Seq(Conn)]
  /\ client_fd \in [Server -> Conn \union {None}]
  /\ shmid \in [Server -> Server \union {None}]
  /\ seg \in [Server -> {"none", "live", "removed"}]
  /\ mem \in [Server -> Server \union {Empty, Torn}]
  /\ info \in [File -> Server \union {None, Empty}]
  /\ lingering \subseteq Port
  /\ link \in [Conn -> LinkState]
  /\ cpc \in [Client -> ClientPlace]
  /\ todo \in [Client -> SUBSET File]
  /\ cur \in [Client -> File \union {None}]
  /\ found \in [Client -> Server \union {None}]
  /\ entry \in [Conn -> Entry]
  /\ up \in [Client -> SUBSET Server]

Init ==
  /\ \E cast \in Casts :
       /\ spc = [s \in Server |-> IF s \in cast THEN "off" ELSE "never"]
       /\ cpc = [c \in Client |-> IF c \in cast THEN "off" ELSE "never"]
  /\ listening = {}
  /\ backlog = [s \in Server |-> <<>>]
  /\ client_fd = [s \in Server |-> None]
  /\ shmid = [s \in Server |-> None]
  /\ seg = [s \in Server |-> "none"]
  /\ mem = [s \in Server |-> Empty]
  /\ info = [f \in File |-> None]
  /\ lingering = {}
  /\ link = [n \in Conn |-> "none"]
  /\ todo = [c \in Client |-> {}]
  /\ cur = [c \in Client |-> None]
  /\ found = [c \in Client |-> None]
  /\ entry = [n \in Conn |-> NoEntry]
  /\ up = [c \in Client |-> {}]

Gone(s) == spc[s] \in {"ended", "failed", "killed"}
Alive(c) == cpc[c] \notin {"never", "off", "ended", "failed"}
Serving(s) == spc[s] \in {"waiting", "accepted", "asleep"}

-----------------------------------------------------------------------------
(* Segments.  sharedMemoAt leaves the client attached until it exits, and a *)
(* segment that was removed exists as long as somebody is attached.         *)

MappedBy(c) == IF Alive(c) THEN {entry[<<c, f>>].shm : f \in File} ELSE {}

Mapped(i) ==
  \/ \E c \in Client : i \in MappedBy(c)
  \/ \E s \in Server : spc[s] = "copying" /\ shmid[s] = i
Exists(i) == seg[i] = "live" \/ (seg[i] = "removed" /\ Mapped(i))

\* What shmget finds: a removed segment has lost its key.
WithKey(k) == {i \in Server : seg[i] = "live" /\ KeyOf[i] = k}

\* shmctl (IPC_RMID): it may have been removed already.
Removed(i) == [j \in Server |-> IF j = i THEN "removed" ELSE seg[j]]

-----------------------------------------------------------------------------
(* Sockets *)

Pending(s) == {backlog[s][k] : k \in DOMAIN backlog[s]}
HoldsClient(s) ==
  client_fd[s] # None /\ spc[s] \in {"accepted", "asleep", "unlistened"}
PortFree(p) ==
  /\ p \notin lingering
  /\ \A s \in Server : PortOf[s] = p => s \notin listening /\ ~HoldsClient(s)

\* What a client reads of the connections that the server closes.
Shut(conns) ==
  [n \in Conn |-> IF n \notin conns \/ link[n] \notin {"open", "written"} THEN link[n]
                  ELSE IF link[n] = "written" THEN "closed" ELSE "reset"]

\* The side that closes first keeps the port for a while.
HeldAfter(s) ==
  lingering \union {p \in {PortOf[s]} : HoldsClient(s) /\ Alive(client_fd[s][1])}

TakenBy(s) == IF HoldsClient(s) THEN {client_fd[s]} ELSE {}

CloseAll(s) ==
  /\ listening' = listening \ {s}
  /\ backlog' = [backlog EXCEPT ![s] = <<>>]
  /\ link' = Shut(Pending(s) \union TakenBy(s))
  /\ lingering' = HeldAfter(s)

-----------------------------------------------------------------------------
(* server.cpp *)

create_newServer(s) ==
  /\ spc[s] = "off"
  /\ PortFree(PortOf[s])
  /\ spc' = [spc EXCEPT ![s] = "listening"]
  /\ listening' = listening \union {s}
  /\ UNCHANGED <<backlog, client_fd, shmid, clientVars, seg, mem, info, lingering, link>>

\* Mutant: the key does not depend on the project id.
MutantCreation(s) ==
  /\ spc[s] = "listening"
  /\ spc' = [spc EXCEPT ![s] = "allocated"]
  /\ LET live == {i \in Server : seg[i] = "live"} IN
       IF live # {}
         THEN \E i \in live : shmid' = [shmid EXCEPT ![s] = i] /\ UNCHANGED <<seg, mem>>
         ELSE /\ shmid' = [shmid EXCEPT ![s] = s]
              /\ seg' = [seg EXCEPT ![s] = "live"]
              /\ mem' = [mem EXCEPT ![s] = Empty]
  /\ UNCHANGED <<listening, backlog, client_fd, clientVars, info, lingering, link>>
\* shmget with IPC_CREAT: a segment of the same key is taken over.
sharedMemoCreation(s) ==
  /\ spc[s] = "listening"
  /\ spc' = [spc EXCEPT ![s] = "allocated"]
  /\ \/ \E i \in WithKey(KeyOf[s]) : shmid' = [shmid EXCEPT ![s] = i] /\ UNCHANGED <<seg, mem>>
     \/ /\ WithKey(KeyOf[s]) = {}
        /\ shmid' = [shmid EXCEPT ![s] = s]
        /\ seg' = [seg EXCEPT ![s] = "live"]
        /\ mem' = [mem EXCEPT ![s] = Empty]
  /\ UNCHANGED <<listening, backlog, client_fd, clientVars, info, lingering, link>>

\* The socket is closed, -1 is returned, and run() goes on.
sharedMemoCreationFails(s) ==
  /\ spc[s] = "listening"
  /\ <<s, "listening">> \in Failing
  /\ spc' = [spc EXCEPT ![s] = "allocated"]
  /\ CloseAll(s)
  /\ UNCHANGED <<client_fd, shmid, clientVars, seg, mem, info>>

\* create_info_file truncates or makes the file, then fills it.
OpenInfoFile(s) ==
  /\ spc[s] = "allocated"
  /\ spc' = [spc EXCEPT ![s] = "opened"]
  /\ info' = [info EXCEPT ![FileOf[s]] = Empty]
  /\ UNCHANGED <<listening, backlog, client_fd, shmid, clientVars, seg, mem, lingering, link>>
\* Mutant: the file is written in two parts.
MutantFillInfoFile(s) ==
  /\ spc[s] = "opened"
  /\ spc' = [spc EXCEPT ![s] = IF info[FileOf[s]] = Torn THEN "published" ELSE @]
  /\ info' = [info EXCEPT ![FileOf[s]] = IF @ = Torn THEN s ELSE Torn]
  /\ UNCHANGED <<listening, backlog, client_fd, shmid, clientVars, seg, mem, lingering, link>>
FillInfoFile(s) ==
  /\ spc[s] = "opened"
  /\ spc' = [spc EXCEPT ![s] = "published"]
  /\ info' = [info EXCEPT ![FileOf[s]] = s]
  /\ UNCHANGED <<listening, backlog, client_fd, shmid, clientVars, seg, mem, lingering, link>>

\* write_to_shm
CanAttach(s) == shmid[s] # None /\ Exists(shmid[s])
BeginCopy(s) ==
  /\ spc[s] = "published"
  /\ CanAttach(s)
  /\ spc' = [spc EXCEPT ![s] = "copying"]
  /\ mem' = [mem EXCEPT ![shmid[s]] = Torn]
  /\ UNCHANGED <<listening, backlog, client_fd, shmid, clientVars, seg, info, lingering, link>>
\* Mutant: the copy loses the end of the message.
MutantEndCopy(s) ==
  /\ spc[s] = "copying"
  /\ spc' = [spc EXCEPT ![s] = "waiting"]
  /\ UNCHANGED <<listening, backlog, client_fd, shmid, clientVars, seg, mem, info, lingering, link>>
EndCopy(s) ==
  /\ spc[s] = "copying"
  /\ spc' = [spc EXCEPT ![s] = "waiting"]
  /\ mem' = [mem EXCEPT ![shmid[s]] = s]
  /\ UNCHANGED <<listening, backlog, client_fd, shmid, clientVars, seg, info, lingering, link>>

\* get_connection: accept takes one connection, once.
Accept(s) ==
  /\ spc[s] = "waiting"
  /\ backlog[s] # <<>>
  /\ spc' = [spc EXCEPT ![s] = "accepted"]
  /\ client_fd' = [client_fd EXCEPT ![s] = Head(backlog[s])]
  /\ backlog' = [backlog EXCEPT ![s] = Tail(backlog[s])]
  /\ UNCHANGED <<listening, shmid, clientVars, seg, mem, info, lingering, link>>
Timeout(s) ==
  /\ spc[s] = "waiting"
  /\ backlog[s] = <<>>
  /\ spc' = [spc EXCEPT ![s] = "asleep"]
  /\ UNCHANGED <<listening, backlog, client_fd, shmid, clientVars, seg, mem, info, lingering, link>>

write_to_socket(s) ==
  /\ spc[s] = "accepted"
  /\ spc' = [spc EXCEPT ![s] = "asleep"]
  /\ link' = [link EXCEPT ![client_fd[s]] = "written"]
  /\ UNCHANGED <<listening, backlog, client_fd, shmid, clientVars, seg, mem, info, lingering>>

\* A call fails, or must fail: the port is taken, or there is nothing to attach.
FailsAt(s) ==
  \/ <<s, spc[s]>> \in Failing /\ spc[s] \notin {"off", "listening"}
  \/ spc[s] = "off" /\ (<<s, "off">> \in Failing \/ ~PortFree(PortOf[s]))
  \/ spc[s] = "published" /\ ~CanAttach(s)

\* Mutant: the segment is not removed.
MutantFreeResources(s) == CloseAll(s) /\ UNCHANGED seg
\* The info file is left as it is.
freeResources(s) ==
  /\ CloseAll(s)
  /\ seg' = IF shmid[s] # None /\ Exists(shmid[s]) THEN Removed(shmid[s]) ELSE seg
FailAndExit(s) ==
  /\ FailsAt(s)
  /\ spc' = [spc EXCEPT ![s] = "failed"]
  /\ freeResources(s)
  /\ UNCHANGED <<client_fd, shmid, clientVars, mem, info>>

\* shutdown, one call at a time.  Mutant: it first waits for the client to close.
MutantCloseListener(s) ==
  /\ spc[s] = "asleep"
  /\ client_fd[s] # None => ~Alive(client_fd[s][1])
  /\ spc' = [spc EXCEPT ![s] = "unlistened"]
  /\ listening' = listening \ {s}
  /\ link' = Shut(Pending(s))
  /\ backlog' = [backlog EXCEPT ![s] = <<>>]
  /\ UNCHANGED <<client_fd, shmid, clientVars, seg, mem, info, lingering>>
CloseListener(s) ==
  /\ spc[s] = "asleep"
  /\ spc' = [spc EXCEPT ![s] = "unlistened"]
  /\ listening' = listening \ {s}
  /\ link' = Shut(Pending(s))
  /\ backlog' = [backlog EXCEPT ![s] = <<>>]
  /\ UNCHANGED <<client_fd, shmid, clientVars, seg, mem, info, lingering>>
CloseClient(s) ==
  /\ spc[s] = "unlistened"
  /\ spc' = [spc EXCEPT ![s] = "disconnected"]
  /\ link' = Shut(TakenBy(s))
  /\ lingering' = HeldAfter(s)
  /\ UNCHANGED <<listening, backlog, client_fd, shmid, clientVars, seg, mem, info>>
RemoveSegment(s) ==
  /\ spc[s] = "disconnected"
  /\ spc' = [spc EXCEPT ![s] = "unallocated"]
  /\ seg' = IF Exists(shmid[s]) THEN Removed(shmid[s]) ELSE seg
  /\ UNCHANGED <<listening, backlog, client_fd, shmid, clientVars, mem, info, lingering, link>>
RemoveInfo(s) ==
  /\ spc[s] = "unallocated"
  /\ spc' = [spc EXCEPT ![s] = "ended"]
  /\ info' = [info EXCEPT ![FileOf[s]] = None]
  /\ UNCHANGED <<listening, backlog, client_fd, shmid, clientVars, seg, mem, lingering, link>>

\* Outside the code: a signal ends the server, and the kernel closes its sockets.
Kill(s) ==
  /\ s \in Mortal
  /\ spc[s] \notin {"never", "off"} /\ ~Gone(s)
  /\ spc' = [spc EXCEPT ![s] = "killed"]
  /\ CloseAll(s)
  /\ UNCHANGED <<client_fd, shmid, clientVars, seg, mem, info>>

\* TIME_WAIT is over.
PortReleased(p) ==
  /\ p \in lingering
  /\ lingering' = lingering \ {p}
  /\ UNCHANGED <<serverVars, clientVars, seg, mem, info, link>>

ServerStep(s) ==
  \/ sharedMemoCreation(s) \/ sharedMemoCreationFails(s)
  \/ OpenInfoFile(s) \/ FillInfoFile(s)
  \/ BeginCopy(s) \/ EndCopy(s)
  \/ Accept(s) \/ Timeout(s) \/ write_to_socket(s)
  \/ CloseListener(s) \/ CloseClient(s) \/ RemoveSegment(s) \/ RemoveInfo(s)
  \/ (FailAndExit(s) /\ spc[s] # "off")

StartServer(s) == create_newServer(s) \/ (FailAndExit(s) /\ spc[s] = "off")

-----------------------------------------------------------------------------
(* client.cpp *)

worldVars == <<serverVars, seg, mem, info, lingering>>

\* opendir, and the first readdir, which fetches the whole of a small directory.
OpenDirectory(c) ==
  /\ cpc[c] = "off"
  /\ cpc' = [cpc EXCEPT ![c] = "scanning"]
  /\ todo' = [todo EXCEPT ![c] = {f \in File : info[f] # None}]
  /\ up' = [up EXCEPT ![c] = {s \in Server : Serving(s)}]
  /\ UNCHANGED <<worldVars, cur, found, entry, link>>

\* The next entry, in the order of the directory.
ReadInfoFile(c) ==
  /\ cpc[c] = "scanning"
  /\ \E f \in todo[c] :
       /\ info[f] # None
       /\ cur' = [cur EXCEPT ![c] = f]
       /\ todo' = [todo EXCEPT ![c] = @ \ {f}]
       /\ entry' = [entry EXCEPT ![<<c, f>>].src = info[f]]
  /\ cpc' = [cpc EXCEPT ![c] = "connecting"]
  /\ UNCHANGED <<worldVars, found, up, link>>

\* exit (1): the file of the entry has been removed.
FileVanished(c) ==
  /\ cpc[c] = "scanning"
  /\ \E f \in todo[c] : info[f] = None
  /\ cpc' = [cpc EXCEPT ![c] = "failed"]
  /\ UNCHANGED <<worldVars, todo, cur, found, entry, up, link>>

Here(c) == <<c, cur[c]>>

\* Refused, or out of time with a full queue: client_fd is -1.
socketConnection(c) ==
  /\ cpc[c] = "connecting"
  /\ cpc' = [cpc EXCEPT ![c] = "locating"]
  /\ LET src == entry[Here(c)].src
         open == {s \in listening : src \in Server /\ PortOf[s] = PortOf[src]
                                      /\ Len(backlog[s]) < QueueLimit}
     IN  \/ \E s \in open :
              /\ entry' = [entry EXCEPT ![Here(c)].fd = s]
              /\ backlog' = [backlog EXCEPT ![s] = Append(@, Here(c))]
              /\ link' = [link EXCEPT ![Here(c)] = "open"]
         \/ open = {} /\ UNCHANGED <<entry, backlog, link>>
  /\ UNCHANGED <<spc, listening, client_fd, shmid, seg, mem, info, lingering,
                 todo, cur, found, up>>

\* sharedMemoAt: shmget, without IPC_CREAT, then shmat.  Mutant: shmget with the
\* key of some server.
MutantLocate(c) ==
  /\ cpc[c] = "locating"
  /\ cpc' = [cpc EXCEPT ![c] = "attaching"]
  /\ \E i \in Server : seg[i] = "live" /\ found' = [found EXCEPT ![c] = i]
  /\ UNCHANGED <<worldVars, todo, cur, entry, up, link>>
Locate(c) ==
  /\ cpc[c] = "locating"
  /\ cpc' = [cpc EXCEPT ![c] = "attaching"]
  /\ LET src == entry[Here(c)].src
         live == IF src \in Server THEN WithKey(KeyOf[src]) ELSE {}
     IN  \/ \E i \in live : found' = [found EXCEPT ![c] = i]
         \/ live = {} /\ found' = [found EXCEPT ![c] = None]
  /\ UNCHANGED <<worldVars, todo, cur, entry, up, link>>
sharedMemoAt(c) ==
  /\ cpc[c] = "attaching"
  /\ cpc' = [cpc EXCEPT ![c] = "scanning"]
  /\ entry' = [entry EXCEPT ![Here(c)].shm =
                 IF found[c] # None /\ Exists(found[c]) THEN found[c] ELSE None]
  /\ found' = [found EXCEPT ![c] = None]
  /\ cur' = [cur EXCEPT ![c] = None]
  /\ UNCHANGED <<worldVars, todo, up, link>>

\* The end of count_servers; the entries are sorted by the names of the files.
Sort(c) ==
  /\ cpc[c] = "scanning"
  /\ todo[c] = {}
  /\ cpc' = [cpc EXCEPT ![c] = "reading"]
  /\ todo' = [todo EXCEPT ![c] = {f \in File : entry[<<c, f>>].src # None}]
  /\ UNCHANGED <<worldVars, cur, found, entry, up, link>>

get_message_from_shm(c) ==
  /\ cpc[c] = "reading"
  /\ \E f \in todo[c] :
       /\ \A g \in todo[c] : f <= g
       /\ cur' = [cur EXCEPT ![c] = f]
       /\ LET i == entry[<<c, f>>].shm IN
            entry' = [entry EXCEPT ![<<c, f>>].shmMsg = IF i = None THEN Empty ELSE mem[i]]
  /\ cpc' = [cpc EXCEPT ![c] = "receiving"]
  /\ UNCHANGED <<worldVars, todo, found, up, link>>

\* Mutant: one read, which does not wait for the end of the message.
MutantReceive(c) ==
  /\ cpc[c] = "receiving"
  /\ entry' = [entry EXCEPT ![Here(c)].sockMsg =
                 IF link[Here(c)] \in {"written", "closed"} THEN entry[Here(c)].fd ELSE Empty]
  /\ todo' = [todo EXCEPT ![c] = @ \ {cur[c]}]
  /\ cur' = [cur EXCEPT ![c] = None]
  /\ cpc' = [cpc EXCEPT ![c] = "reading"]
  /\ UNCHANGED <<worldVars, found, up, link>>
\* Until the end of the stream or an error.
get_message_from_socket(c) ==
  /\ cpc[c] = "receiving"
  /\ entry[Here(c)].fd # None => link[Here(c)] \in {"closed", "reset"}
  /\ entry' = [entry EXCEPT ![Here(c)].sockMsg =
                 IF link[Here(c)] = "closed" THEN entry[Here(c)].fd ELSE Empty]
  /\ todo' = [todo EXCEPT ![c] = @ \ {cur[c]}]
  /\ cur' = [cur EXCEPT ![c] = None]
  /\ cpc' = [cpc EXCEPT ![c] = "reading"]
  /\ UNCHANGED <<worldVars, found, up, link>>

disconnect(c) ==
  /\ cpc[c] = "reading"
  /\ todo[c] = {}
  /\ cpc' = [cpc EXCEPT ![c] = "ended"]
  /\ UNCHANGED <<worldVars, todo, cur, found, entry, up, link>>

ClientStep(c) ==
  \/ ReadInfoFile(c) \/ FileVanished(c)
  \/ socketConnection(c) \/ Locate(c) \/ sharedMemoAt(c) \/ Sort(c)
  \/ get_message_from_shm(c) \/ get_message_from_socket(c) \/ disconnect(c)

\* The programs may be started at any time; once started they run on.
Next ==
  \/ \E s \in Server : StartServer(s) \/ ServerStep(s) \/ Kill(s)
  \/ \E c \in Client : OpenDirectory(c) \/ ClientStep(c)
  \/ \E p \in Port : PortReleased(p)

Spec == Init /\ [][Next]_vars

FairSpec ==
  /\ Spec
  /\ \A s \in Server : WF_vars(ServerStep(s))
  /\ \A c \in Client : WF_vars(ClientStep(c))

-----------------------------------------------------------------------------
(* Properties *)

\* What print_server_infos counts the entry as; the code has no name for a
\* server that answers on its socket only.
Kind(e) == IF e.shm # None /\ e.fd # None THEN "host"
           ELSE IF e.shm # None THEN "container"
           ELSE IF e.fd = None THEN "vm" ELSE "uncounted"

\* A server that serves can be found: its info file is there and is its own, its
\* segment has its key and holds its whole message (create_info_file,
\* sharedMemoCreation, write_to_shm against shutdown of the others).
AvailableIsListed ==
  \A s \in Server : Serving(s) =>
    /\ info[FileOf[s]] = s
    /\ shmid[s] # None /\ seg[shmid[s]] = "live" /\ mem[shmid[s]] = s
    /\ s \in listening

\* A server that is gone, on whichever path, holds no socket and no segment that
\* a client could find; one that reached the end of shutdown has no info file.
ServersCleanUp ==
  \A s \in Server :
    /\ spc[s] \in {"ended", "failed"} =>
         /\ s \notin listening /\ backlog[s] = <<>>
         /\ shmid[s] # None => seg[shmid[s]] # "live"
    /\ spc[s] = "ended" => info[FileOf[s]] # s

\* A server that serves from before a client opens the directory until the client
\* has scanned it is counted as a host (count_servers, print_server_infos).
StableServerIsHost ==
  \A c \in Client : cpc[c] \in {"reading", "receiving", "ended"} =>
    \A s \in up[c] : Serving(s) =>
      LET e == entry[<<c, FileOf[s]>>] IN Kind(e) = "host" /\ e.fd = s /\ e.shm = shmid[s]

\* What a client reports from the memory of a server that served when it opened
\* the directory is the whole message of that server, even if the server has
\* removed the segment meanwhile.
StableMessageWhole ==
  \A c \in Client : \A s \in up[c] :
    LET e == entry[<<c, FileOf[s]>>] IN
      e.shm # None /\ e.shmMsg # None => e.shmMsg = s

\* The socket message goes to one client, the one that the server has accepted,
\* and that one reads it to the end; the others read nothing.
OneIsAnswered ==
  \A n \in Conn :
    LET e == entry[n] IN
      e.fd # None /\ e.sockMsg # None =>
        (e.sockMsg = e.fd <=> (client_fd[e.fd] = n /\ link[n] = "closed"))
          /\ (client_fd[e.fd] = n /\ spc[e.fd] = "ended" => e.sockMsg = e.fd)

\* A client that has opened the directory comes to its end, also when a server
\* that it is connected to never takes the connection, and so does a server that
\* has started, with and without clients: neither waits for the other for ever.
EveryProcessEnds ==
  /\ \A c \in Client : Alive(c) ~> cpc[c] \in {"ended", "failed"}
  /\ \A s \in Server : spc[s] \notin {"never", "off"} ~> Gone(s)

=============================================================================
