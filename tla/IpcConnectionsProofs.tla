------------------------ MODULE IpcConnectionsProofs ------------------------
(***************************************************************************)
(* The life of a connection, from the queue of the server that a client has *)
(* reached to the end of the stream: each server answers one client; and a  *)
(* client that is not turned away counts each stable server as a host.      *)
(***************************************************************************)
EXTENDS IpcServersProofs, FiniteSetTheorems

-----------------------------------------------------------------------------
(* The inductive invariant.                                                 *)

BeforeAccept == {"never", "off", "listening", "allocated", "opened", "published",
                 "copying", "waiting"}

\* What the client of a connection can read, and where its server is.
ConnSound(n) ==
  LET s == entry[n].fd IN
    /\ link[n] = "none" <=> s = None
    /\ s # None =>
         /\ entry[n].sockMsg # None =>
              link[n] \in {"closed", "reset"} /\ (entry[n].sockMsg = s <=> link[n] = "closed")
         /\ link[n] \in {"written", "closed"} => client_fd[s] = n
         /\ client_fd[s] = n =>
              /\ spc[s] = "accepted" => link[n] = "open"
              /\ spc[s] \in {"asleep", "unlistened"} => link[n] = "written"
              /\ spc[s] \in {"disconnected", "unallocated", "ended"} => link[n] = "closed"

\* The queue of a server holds open connections to it, each once, and not the one
\* that it has taken.
QueueSound(s) ==
  /\ \A k \in DOMAIN backlog[s] :
       /\ entry[backlog[s][k]].fd = s
       /\ link[backlog[s][k]] = "open"
       /\ client_fd[s] # backlog[s][k]
  /\ \A j, k \in DOMAIN backlog[s] : backlog[s][j] = backlog[s][k] => j = k
  /\ client_fd[s] # None => entry[client_fd[s]].fd = s
  /\ spc[s] \in BeforeAccept => client_fd[s] = None
  /\ spc[s] = "accepted" => client_fd[s] # None

\* A client connects once for each file.
FreshSound(c) ==
  cpc[c] = "connecting" => entry[Here(c)].fd = None /\ entry[Here(c)].sockMsg = None

ConnInv ==
  /\ \A n \in Conn : ConnSound(n)
  /\ \A s \in Server : QueueSound(s)
  /\ \A c \in Client : FreshSound(c)

-----------------------------------------------------------------------------
(* Steps of servers.                                                        *)

\* What a step of server s leaves of the connections.
Serves(s) ==
  /\ UNCHANGED clientVars
  /\ \A t \in Server \ {s} :
       spc'[t] = spc[t] /\ backlog'[t] = backlog[t] /\ client_fd'[t] = client_fd[t]
  /\ \A n \in Conn : entry[n].fd # s => link'[n] = link[n]

LEMMA ConnFrame ==
  ASSUME TypeOK, ConnInv, NEW s \in Server, Serves(s), QueueSound(s)',
         \A n \in Conn : entry[n].fd = s => ConnSound(n)'
  PROVE  ConnInv'
<1>1. ASSUME NEW n \in Conn, entry[n].fd # s PROVE ConnSound(n)'
  <2>1. entry[n].fd \in Server \union {None} BY DEF TypeOK, Entry
  <2>2. ConnSound(n) /\ entry' = entry /\ link'[n] = link[n]
    BY <1>1 DEF ConnInv, Serves, clientVars
  <2>3. entry[n].fd # None =>
          spc'[entry[n].fd] = spc[entry[n].fd] /\ client_fd'[entry[n].fd] = client_fd[entry[n].fd]
    BY <1>1, <2>1 DEF Serves
  <2>4. QED BY <2>2, <2>3 DEF ConnSound
<1>2. ASSUME NEW t \in Server, t # s PROVE QueueSound(t)'
  <2>1. /\ QueueSound(t) /\ entry' = entry /\ backlog[t] \in Seq(Conn)
        /\ spc'[t] = spc[t] /\ backlog'[t] = backlog[t] /\ client_fd'[t] = client_fd[t]
    BY <1>2 DEF ConnInv, Serves, clientVars, TypeOK
  <2>2. \A k \in DOMAIN backlog[t] : link'[backlog[t][k]] = link[backlog[t][k]]
    BY <1>2, <2>1 DEF QueueSound, Serves
  <2>3. QED BY <2>1, <2>2 DEF QueueSound
<1>3. ASSUME NEW c \in Client PROVE FreshSound(c)'
  BY DEF ConnInv, Serves, clientVars, FreshSound, Here
<1>4. QED BY <1>1, <1>2, <1>3 DEF ConnInv

LEMMA NoneIsNoServer == None \notin Server /\ None \notin Conn /\ Empty \notin Server
BY IpcAssumption

\* The steps that change no connection.
LEMMA QuietStep ==
  ASSUME TypeOK, ConnInv, NEW s \in Server,
         UNCHANGED <<clientVars, link, client_fd>>,
         \A t \in Server : backlog'[t] = backlog[t],
         \A t \in Server \ {s} : spc'[t] = spc[t],
         \/ spc[s] \in BeforeAccept /\ spc'[s] \in BeforeAccept \union {"asleep"}
         \/ spc[s] = "disconnected" /\ spc'[s] = "unallocated"
         \/ spc[s] = "unallocated" /\ spc'[s] = "ended"
  PROVE  ConnInv'
<1>1. QueueSound(s) BY DEF ConnInv
<1>2. Serves(s) BY DEF Serves
<1>3. QueueSound(s)' BY <1>1 DEF QueueSound, BeforeAccept, clientVars
<1>4. ASSUME NEW n \in Conn, entry[n].fd = s PROVE ConnSound(n)'
  <2>1. ConnSound(n) /\ entry' = entry /\ link' = link /\ client_fd' = client_fd
    BY DEF ConnInv, clientVars
  <2>2. CASE spc[s] \in BeforeAccept
    BY <1>1, <1>4, <2>1, <2>2, NoneIsNoServer DEF ConnSound, QueueSound
  <2>3. CASE spc[s] \notin BeforeAccept
    BY <1>4, <2>1, <2>3 DEF ConnSound
  <2>4. QED BY <2>2, <2>3
<1>5. QED BY <1>2, <1>3, <1>4, ConnFrame

\* Closing connections: those in the queue have no message, the one that was taken
\* keeps the message that was written.
LEMMA ClosingStep ==
  ASSUME TypeOK, ConnInv, NEW s \in Server,
         NEW conns \in SUBSET (Pending(s) \union TakenBy(s)),
         UNCHANGED <<clientVars, client_fd>>, link' = Shut(conns),
         \A t \in Server \ {s} : spc'[t] = spc[t] /\ backlog'[t] = backlog[t],
         backlog'[s] = <<>>, Pending(s) \subseteq conns,
         \/ spc'[s] \in {"failed", "killed"}
         \/ spc[s] \in BeforeAccept /\ spc'[s] \in BeforeAccept
         \/ spc[s] = "asleep" /\ spc'[s] = "unlistened" /\ conns = Pending(s)
         \/ spc[s] = "unlistened" /\ spc'[s] = "disconnected" /\ conns = TakenBy(s)
  PROVE  ConnInv'
<1>1. QueueSound(s) BY DEF ConnInv
<1>2. \A n \in conns : /\ n \in Conn /\ entry[n].fd = s
                       /\ n \in Pending(s) => link[n] = "open" /\ client_fd[s] # n
                       /\ n \in TakenBy(s) => client_fd[s] = n
  <2>1. backlog[s] \in Seq(Conn) /\ client_fd[s] \in Conn \union {None} BY DEF TypeOK
  <2>2. ASSUME NEW n \in Pending(s)
        PROVE  n \in Conn /\ entry[n].fd = s /\ link[n] = "open" /\ client_fd[s] # n
    BY <1>1, <2>1 DEF Pending, QueueSound
  <2>3. ASSUME NEW n \in TakenBy(s)
        PROVE  n \in Conn /\ entry[n].fd = s /\ client_fd[s] = n
    BY <1>1, <2>1 DEF TakenBy, HoldsClient, QueueSound
  <2>4. QED BY <2>2, <2>3
<1>3. \A n \in Conn :
        link'[n] = IF n \notin conns \/ link[n] \notin {"open", "written"} THEN link[n]
                   ELSE IF link[n] = "written" THEN "closed" ELSE "reset"
  BY DEF Shut
<1>4. Serves(s) BY <1>2, <1>3 DEF Serves
<1>5. QueueSound(s)'
  BY <1>1 DEF QueueSound, BeforeAccept, clientVars
<1>6. ASSUME NEW n \in Conn, entry[n].fd = s PROVE ConnSound(n)'
  <2>1. ConnSound(n) /\ entry' = entry /\ client_fd' = client_fd
    BY DEF ConnInv, clientVars
  <2>2. link[n] # "none" BY <1>6, <2>1, NoneIsNoServer DEF ConnSound
  <2>3. link'[n] # "none" BY <1>3, <2>2
  <2>4. entry[n].sockMsg # None =>
          link'[n] \in {"closed", "reset"} /\ (entry[n].sockMsg = s <=> link'[n] = "closed")
    BY <1>3, <1>6, <2>1, NoneIsNoServer DEF ConnSound
  <2>5. link'[n] \in {"written", "closed"} => client_fd[s] = n
    BY <1>3, <1>6, <2>1, NoneIsNoServer DEF ConnSound
  <2>6. ASSUME client_fd[s] = n
        PROVE  /\ spc'[s] = "accepted" => link'[n] = "open"
               /\ spc'[s] \in {"asleep", "unlistened"} => link'[n] = "written"
               /\ spc'[s] \in {"disconnected", "unallocated", "ended"} => link'[n] = "closed"
    <3>1. spc[s] \notin BeforeAccept
      BY <1>1, <2>6, NoneIsNoServer DEF QueueSound
    <3>2. CASE spc'[s] \in {"failed", "killed"} BY <3>2
    <3>3. CASE spc[s] = "asleep" /\ spc'[s] = "unlistened" /\ conns = Pending(s)
      <4>1. n \notin conns BY <1>2, <2>6, <3>3
      <4>2. link[n] = "written" BY <1>6, <2>1, <2>6, <3>3, NoneIsNoServer DEF ConnSound
      <4>3. QED BY <1>3, <3>3, <4>1, <4>2
    <3>4. CASE spc[s] = "unlistened" /\ spc'[s] = "disconnected" /\ conns = TakenBy(s)
      <4>1. n \in conns BY <2>6, <3>4, NoneIsNoServer DEF TakenBy, HoldsClient
      <4>2. link[n] = "written" BY <1>6, <2>1, <2>6, <3>4, NoneIsNoServer DEF ConnSound
      <4>3. QED BY <1>3, <3>4, <4>1, <4>2
    <3>5. QED BY <3>1, <3>2, <3>3, <3>4
  <2>7. QED BY <1>6, <2>1, <2>3, <2>4, <2>5, <2>6, NoneIsNoServer DEF ConnSound
<1>7. QED BY <1>4, <1>5, <1>6, ConnFrame

LEMMA PlainSteps ==
  ASSUME IpcInv, ConnInv, NEW s \in Server,
         \/ create_newServer(s) \/ sharedMemoCreation(s) \/ OpenInfoFile(s) \/ FillInfoFile(s)
         \/ BeginCopy(s) \/ EndCopy(s) \/ Timeout(s) \/ RemoveSegment(s) \/ RemoveInfo(s)
  PROVE  ConnInv'
<1>1. TypeOK BY DEF IpcInv
<1>2. UNCHANGED <<clientVars, link, client_fd, backlog>>
  BY DEF create_newServer, sharedMemoCreation, OpenInfoFile, FillInfoFile, BeginCopy, EndCopy,
         Timeout, RemoveSegment, RemoveInfo
<1>3. /\ \A t \in Server \ {s} : spc'[t] = spc[t]
      /\ \/ spc[s] \in BeforeAccept /\ spc'[s] \in BeforeAccept \union {"asleep"}
         \/ spc[s] = "disconnected" /\ spc'[s] = "unallocated"
         \/ spc[s] = "unallocated" /\ spc'[s] = "ended"
  BY <1>1 DEF TypeOK, BeforeAccept, create_newServer, sharedMemoCreation, OpenInfoFile,
              FillInfoFile, BeginCopy, EndCopy, Timeout, RemoveSegment, RemoveInfo
<1>4. QED BY <1>1, <1>2, <1>3, QuietStep

LEMMA ClosingSteps ==
  ASSUME IpcInv, ConnInv, NEW s \in Server,
         \/ sharedMemoCreationFails(s) \/ FailAndExit(s) \/ Kill(s)
         \/ CloseListener(s) \/ CloseClient(s)
  PROVE  ConnInv'
<1>1. TypeOK BY DEF IpcInv
<1>2. CASE sharedMemoCreationFails(s) \/ FailAndExit(s) \/ Kill(s)
  <2>1. CloseAll(s) BY <1>2 DEF sharedMemoCreationFails, FailAndExit, freeResources, Kill
  <2>2. /\ UNCHANGED <<clientVars, client_fd>>
        /\ \A t \in Server \ {s} : spc'[t] = spc[t]
        /\ \/ spc'[s] \in {"failed", "killed"}
           \/ spc[s] \in BeforeAccept /\ spc'[s] \in BeforeAccept
    BY <1>1, <1>2 DEF TypeOK, BeforeAccept, sharedMemoCreationFails, FailAndExit, Kill
  <2>3. /\ link' = Shut(Pending(s) \union TakenBy(s)) /\ backlog'[s] = <<>>
        /\ \A t \in Server \ {s} : backlog'[t] = backlog[t]
    BY <1>1, <2>1 DEF TypeOK, CloseAll
  <2>4. QED BY <1>1, <2>2, <2>3, ClosingStep
<1>3. CASE CloseListener(s)
  <2>1. /\ UNCHANGED <<clientVars, client_fd>> /\ link' = Shut(Pending(s))
        /\ spc[s] = "asleep" /\ spc'[s] = "unlistened" /\ backlog'[s] = <<>>
        /\ \A t \in Server \ {s} : spc'[t] = spc[t] /\ backlog'[t] = backlog[t]
    BY <1>1, <1>3 DEF TypeOK, CloseListener
  <2>2. QED BY <1>1, <2>1, ClosingStep
<1>4. CASE CloseClient(s)
  <2>1. /\ UNCHANGED <<clientVars, client_fd, backlog>> /\ link' = Shut(TakenBy(s))
        /\ spc[s] = "unlistened" /\ spc'[s] = "disconnected"
        /\ \A t \in Server \ {s} : spc'[t] = spc[t]
    BY <1>1, <1>4 DEF TypeOK, CloseClient
  <2>2. backlog[s] = <<>> BY <2>1 DEF IpcInv, ServerSound, SocketSound, Closed
  <2>3. Pending(s) = {} BY <2>2 DEF Pending
  <2>4. QED BY <1>1, <2>1, <2>2, <2>3, ClosingStep
<1>5. QED BY <1>2, <1>3, <1>4

\* accept takes the oldest connection of the queue.
LEMMA AcceptStep ==
  ASSUME TypeOK, ConnInv, NEW s \in Server, Accept(s) PROVE ConnInv'
<1>1. /\ spc[s] = "waiting" /\ spc'[s] = "accepted" /\ backlog[s] # <<>>
      /\ client_fd'[s] = Head(backlog[s]) /\ backlog'[s] = Tail(backlog[s])
      /\ \A t \in Server \ {s} :
           spc'[t] = spc[t] /\ backlog'[t] = backlog[t] /\ client_fd'[t] = client_fd[t]
      /\ UNCHANGED <<clientVars, link>>
  BY DEF TypeOK, Accept
<1>2. QueueSound(s) /\ backlog[s] \in Seq(Conn) BY DEF ConnInv, TypeOK
<1>3. /\ Head(backlog[s]) = backlog[s][1] /\ 1 \in DOMAIN backlog[s]
      /\ \A k \in DOMAIN Tail(backlog[s]) :
           /\ k \in Nat /\ k + 1 \in DOMAIN backlog[s] /\ k + 1 # 1
           /\ Tail(backlog[s])[k] = backlog[s][k + 1]
  BY <1>1, <1>2
<1>4. client_fd[s] = None BY <1>1, <1>2 DEF QueueSound, BeforeAccept
<1>5. Serves(s) BY <1>1 DEF Serves
<1>6. QueueSound(s)'
  <2>1. \A k \in DOMAIN backlog'[s] :
          /\ entry'[backlog'[s][k]].fd = s
          /\ link'[backlog'[s][k]] = "open"
          /\ client_fd'[s] # backlog'[s][k]
    BY <1>1, <1>2, <1>3 DEF QueueSound, clientVars
  <2>2. \A j, k \in DOMAIN backlog'[s] : backlog'[s][j] = backlog'[s][k] => j = k
    <3> SUFFICES ASSUME NEW j \in DOMAIN Tail(backlog[s]), NEW k \in DOMAIN Tail(backlog[s]),
                        Tail(backlog[s])[j] = Tail(backlog[s])[k]
                 PROVE  j = k
      BY <1>1
    <3>1. j + 1 = k + 1 BY <1>2, <1>3 DEF QueueSound
    <3>2. QED BY <1>3, <3>1
  <2>3. client_fd'[s] # None /\ entry'[client_fd'[s]].fd = s
    BY <1>1, <1>2, <1>3, NoneIsNoServer DEF QueueSound, clientVars
  <2>4. QED BY <1>1, <2>1, <2>2, <2>3 DEF QueueSound, BeforeAccept
<1>7. ASSUME NEW n \in Conn, entry[n].fd = s PROVE ConnSound(n)'
  <2>1. ConnSound(n) /\ entry' = entry /\ link' = link BY <1>1 DEF ConnInv, clientVars
  <2>2. n # None /\ s # None BY NoneIsNoServer
  <2>3. link[n] \notin {"written", "closed"} BY <1>4, <1>7, <2>1, <2>2 DEF ConnSound
  <2>4. client_fd'[s] = n => link[n] = "open" BY <1>1, <1>2, <1>3 DEF QueueSound
  <2>5. QED BY <1>1, <1>7, <2>1, <2>2, <2>3, <2>4 DEF ConnSound
<1>8. QED BY <1>5, <1>6, <1>7, ConnFrame

\* The message goes to the connection that was taken, and to no other.
LEMMA WriteStep ==
  ASSUME TypeOK, ConnInv, NEW s \in Server, write_to_socket(s) PROVE ConnInv'
<1>1. /\ spc[s] = "accepted" /\ spc'[s] = "asleep"
      /\ \A t \in Server \ {s} : spc'[t] = spc[t]
      /\ link' = [link EXCEPT ![client_fd[s]] = "written"]
      /\ UNCHANGED <<clientVars, backlog, client_fd>>
  BY DEF TypeOK, write_to_socket
<1>2. QueueSound(s) BY DEF ConnInv
<1>3. client_fd[s] \in Conn /\ entry[client_fd[s]].fd = s
  BY <1>1, <1>2 DEF QueueSound, TypeOK
<1>4. /\ link'[client_fd[s]] = "written"
      /\ \A n \in Conn : n # client_fd[s] => link'[n] = link[n]
  BY <1>1, <1>3 DEF TypeOK
<1>5. Serves(s) BY <1>1, <1>3, <1>4 DEF Serves
<1>6. QueueSound(s)'
  <2>1. backlog[s] \in Seq(Conn) BY DEF TypeOK
  <2>2. \A k \in DOMAIN backlog[s] : link'[backlog[s][k]] = "open"
    BY <1>2, <1>4, <2>1 DEF QueueSound
  <2>3. QED BY <1>1, <1>2, <2>2 DEF QueueSound, BeforeAccept, clientVars
<1>7. ASSUME NEW n \in Conn, entry[n].fd = s PROVE ConnSound(n)'
  <2>1. ConnSound(n) /\ entry' = entry /\ client_fd' = client_fd
    BY <1>1 DEF ConnInv, clientVars
  <2>2. s # None BY NoneIsNoServer
  <2>3. CASE n = client_fd[s]
    <3>1. link[n] = "open" BY <1>1, <1>7, <2>1, <2>2, <2>3 DEF ConnSound
    <3>2. entry[n].sockMsg = None BY <1>7, <2>1, <2>2, <3>1 DEF ConnSound
    <3>3. QED BY <1>1, <1>4, <1>7, <2>1, <2>2, <2>3, <3>2 DEF ConnSound
  <2>4. CASE n # client_fd[s]
    BY <1>4, <1>7, <2>1, <2>2, <2>4 DEF ConnSound
  <2>5. QED BY <2>3, <2>4
<1>8. QED BY <1>5, <1>6, <1>7, ConnFrame

-----------------------------------------------------------------------------
(* Steps of clients.                                                        *)

\* The steps that neither connect nor receive.
LEMMA QuietClientStep ==
  ASSUME TypeOK, ConnInv, NEW c \in Client,
         UNCHANGED <<spc, client_fd, backlog, link>>,
         \A n \in Conn : entry'[n].fd = entry[n].fd /\ entry'[n].sockMsg = entry[n].sockMsg,
         \A d \in Client \ {c} : cpc'[d] = cpc[d] /\ cur'[d] = cur[d] /\
                                 (cpc[d] = "connecting" => Here(d) \in Conn),
         FreshSound(c)'
  PROVE  ConnInv'
<1>1. ASSUME NEW n \in Conn PROVE ConnSound(n)'
  BY DEF ConnInv, ConnSound
<1>2. ASSUME NEW s \in Server PROVE QueueSound(s)'
  <2>1. /\ QueueSound(s) /\ backlog[s] \in Seq(Conn) /\ client_fd[s] \in Conn \union {None}
    BY DEF ConnInv, TypeOK
  <2>2. \A k \in DOMAIN backlog[s] : backlog[s][k] \in Conn BY <2>1
  <2>3. QED BY <2>1, <2>2 DEF QueueSound
<1>3. ASSUME NEW d \in Client, d # c PROVE FreshSound(d)'
  <2>1. FreshSound(d) /\ Here(d)' = Here(d) BY <1>3 DEF ConnInv, Here
  <2>2. QED BY <1>3, <2>1 DEF FreshSound
<1>4. QED BY <1>1, <1>2, <1>3 DEF ConnInv

\* A client that connects is at a file.
LEMMA AtFile ==
  ASSUME IpcInv, NEW c \in Client, cpc[c] \in Visiting \union {"receiving"}
  PROVE  cur[c] \in File /\ Here(c) = <<c, cur[c]>> /\ Here(c) \in Conn
BY DEF IpcInv, ClientSound, LoopSound, Here, Conn

LEMMA ScanSteps ==
  ASSUME IpcInv, ConnInv, NEW c \in Client,
         \/ OpenDirectory(c) \/ FileVanished(c) \/ Locate(c) \/ sharedMemoAt(c)
         \/ Sort(c) \/ get_message_from_shm(c) \/ disconnect(c)
  PROVE  ConnInv'
<1>1. TypeOK BY DEF IpcInv
<1>2. UNCHANGED <<spc, client_fd, backlog, link>>
  BY DEF OpenDirectory, FileVanished, Locate, sharedMemoAt, Sort, get_message_from_shm,
         disconnect, worldVars, serverVars
<1>3. cpc'[c] # "connecting" /\ \A d \in Client \ {c} : cpc'[d] = cpc[d] /\ cur'[d] = cur[d]
  BY <1>1 DEF TypeOK, OpenDirectory, FileVanished, Locate, sharedMemoAt, Sort,
              get_message_from_shm, disconnect
<1>4. \A n \in Conn : entry'[n].fd = entry[n].fd /\ entry'[n].sockMsg = entry[n].sockMsg
  <2>1. CASE sharedMemoAt(c)
    BY <1>1, <2>1 DEF TypeOK, Entry, sharedMemoAt
  <2>2. CASE get_message_from_shm(c)
    <3>1. PICK f \in todo[c] :
            entry' = [entry EXCEPT ![<<c, f>>].shmMsg =
                        IF entry[<<c, f>>].shm = None THEN Empty ELSE mem[entry[<<c, f>>].shm]]
      BY <2>2 DEF get_message_from_shm
    <3>2. <<c, f>> \in Conn /\ entry \in [Conn -> Entry] BY <1>1 DEF TypeOK, Conn
    <3>3. /\ entry'[<<c, f>>].fd = entry[<<c, f>>].fd
          /\ entry'[<<c, f>>].sockMsg = entry[<<c, f>>].sockMsg
      BY <3>1, <3>2 DEF Entry
    <3>4. \A n \in Conn \ {<<c, f>>} : entry'[n] = entry[n] BY <3>1, <3>2
    <3>5. QED BY <3>3, <3>4
  <2>3. CASE UNCHANGED entry BY <2>3
  <2>4. QED
    BY <2>1, <2>2, <2>3 DEF OpenDirectory, FileVanished, Locate, Sort, disconnect
<1>5. \A d \in Client : cpc[d] = "connecting" => Here(d) \in Conn BY AtFile DEF Visiting
<1>6. QED BY <1>1, <1>2, <1>3, <1>4, <1>5, QuietClientStep DEF FreshSound

\* The entry of a file is empty when the loop comes to the file.
LEMMA ReadInfoStep ==
  ASSUME IpcInv, ConnInv, NEW c \in Client, ReadInfoFile(c) PROVE ConnInv'
<1>1. TypeOK BY DEF IpcInv
<1>2. PICK f \in todo[c] :
        /\ cur' = [cur EXCEPT ![c] = f]
        /\ entry' = [entry EXCEPT ![<<c, f>>].src = info[f]]
  BY DEF ReadInfoFile
<1>3. f \in File /\ entry[<<c, f>>] = NoEntry /\ <<c, f>> \in Conn
  BY <1>1 DEF TypeOK, ReadInfoFile, IpcInv, ClientSound, LoopSound, Conn
<1>4. \A n \in Conn : entry'[n].fd = entry[n].fd /\ entry'[n].sockMsg = entry[n].sockMsg
  <2>1. entry'[<<c, f>>] = [NoEntry EXCEPT !.src = info[f]] BY <1>1, <1>2, <1>3 DEF TypeOK
  <2>2. \A n \in Conn \ {<<c, f>>} : entry'[n] = entry[n] BY <1>1, <1>2 DEF TypeOK
  <2>3. QED BY <1>3, <2>1, <2>2 DEF NoEntry
<1>5. Here(c)' = <<c, f>> BY <1>1, <1>2 DEF TypeOK, Here
<1>6. FreshSound(c)' BY <1>3, <1>4, <1>5 DEF FreshSound, NoEntry
<1>7. \A d \in Client \ {c} : cpc'[d] = cpc[d] /\ cur'[d] = cur[d]
  BY <1>1, <1>2 DEF TypeOK, ReadInfoFile
<1>8. \A d \in Client : cpc[d] = "connecting" => Here(d) \in Conn BY AtFile DEF Visiting
<1>9. UNCHANGED <<spc, client_fd, backlog, link>>
  BY DEF ReadInfoFile, worldVars, serverVars
<1>10. QED BY <1>1, <1>4, <1>6, <1>7, <1>8, <1>9, QuietClientStep

\* A new connection goes to the end of one queue, in which it was not.
LEMMA ConnectSteps ==
  ASSUME IpcInv, ConnInv, NEW c \in Client, socketConnection(c) PROVE ConnInv'
<1>1. TypeOK BY DEF IpcInv
<1> DEFINE h == Here(c)
<1>2. /\ cur[c] \in File /\ h = <<c, cur[c]>> /\ h \in Conn
      /\ entry[h].fd = None /\ entry[h].sockMsg = None
  BY AtFile DEF socketConnection, Visiting, ConnInv, FreshSound
<1>3. /\ UNCHANGED <<spc, client_fd, cur>> /\ cpc'[c] # "connecting"
      /\ \A d \in Client \ {c} : cpc'[d] = cpc[d]
  BY <1>1 DEF TypeOK, socketConnection
<1>4. \A d \in Client : cpc[d] = "connecting" => cur[d] \in File /\ Here(d) = <<d, cur[d]>>
  BY AtFile DEF Visiting
<1>5. CASE UNCHANGED <<entry, backlog, link>>
  <2>1. \A d \in Client : cpc[d] = "connecting" => Here(d) \in Conn BY <1>4 DEF Conn
  <2>2. QED BY <1>1, <1>3, <1>5, <2>1, QuietClientStep DEF FreshSound
<1>6. ASSUME NEW s \in Server,
             entry' = [entry EXCEPT ![h].fd = s],
             backlog' = [backlog EXCEPT ![s] = Append(@, h)],
             link' = [link EXCEPT ![h] = "open"]
      PROVE  ConnInv'
  <2>1. /\ entry'[h].fd = s /\ entry'[h].sockMsg = None /\ link'[h] = "open"
        /\ \A n \in Conn \ {h} : entry'[n] = entry[n] /\ link'[n] = link[n]
    BY <1>1, <1>2, <1>6 DEF TypeOK, Entry
  <2>2. /\ backlog'[s] = Append(backlog[s], h)
        /\ \A t \in Server \ {s} : backlog'[t] = backlog[t]
    BY <1>1, <1>6 DEF TypeOK
  <2>3. \A t \in Server :
          /\ QueueSound(t) /\ backlog[t] \in Seq(Conn) /\ client_fd[t] \in Conn \union {None}
          /\ client_fd[t] # h /\ \A k \in DOMAIN backlog[t] : backlog[t][k] \in Conn \ {h}
    <3> SUFFICES ASSUME NEW t \in Server
                 PROVE  /\ QueueSound(t) /\ backlog[t] \in Seq(Conn)
                        /\ client_fd[t] \in Conn \union {None}
                        /\ client_fd[t] # h
                        /\ \A k \in DOMAIN backlog[t] : backlog[t][k] \in Conn \ {h}
      OBVIOUS
    <3>1. QueueSound(t) BY DEF ConnInv
    <3>2. backlog[t] \in Seq(Conn) /\ client_fd[t] \in Conn \union {None}
      BY <1>1 DEF TypeOK
    <3>3. client_fd[t] # h BY <1>2, <3>1, NoneIsNoServer DEF QueueSound
    <3>4. \A k \in DOMAIN backlog[t] : backlog[t][k] # h
      BY <1>2, <3>1, NoneIsNoServer DEF QueueSound
    <3>5. QED BY <3>1, <3>2, <3>3, <3>4
  <2>4. ASSUME NEW n \in Conn PROVE ConnSound(n)'
    <3>1. CASE n = h BY <1>3, <2>1, <2>3, <3>1, NoneIsNoServer DEF ConnSound
    <3>2. CASE n # h BY <1>3, <2>1, <3>2 DEF ConnInv, ConnSound
    <3>3. QED BY <3>1, <3>2
  <2>5. ASSUME NEW t \in Server, t # s PROVE QueueSound(t)'
    BY <1>3, <2>1, <2>2, <2>3, <2>5 DEF QueueSound
  <2>6. QueueSound(s)'
    <3>1. /\ DOMAIN backlog'[s] = DOMAIN backlog[s] \union {Len(backlog[s]) + 1}
          /\ Len(backlog[s]) + 1 \notin DOMAIN backlog[s]
          /\ backlog'[s][Len(backlog[s]) + 1] = h
          /\ \A k \in DOMAIN backlog[s] : backlog'[s][k] = backlog[s][k]
      BY <1>2, <2>2, <2>3
    <3>2. \A k \in DOMAIN backlog'[s] :
            /\ entry'[backlog'[s][k]].fd = s
            /\ link'[backlog'[s][k]] = "open"
            /\ client_fd[s] # backlog'[s][k]
      BY <2>1, <2>3, <3>1 DEF QueueSound
    <3>3. \A j, k \in DOMAIN backlog'[s] : backlog'[s][j] = backlog'[s][k] => j = k
      BY <2>3, <3>1 DEF QueueSound
    <3>4. client_fd[s] # None => entry'[client_fd[s]].fd = s
      BY <2>1, <2>3 DEF QueueSound
    <3>5. QED BY <1>3, <2>3, <3>2, <3>3, <3>4 DEF QueueSound
  <2>7. ASSUME NEW d \in Client, d # c PROVE FreshSound(d)'
    <3>1. cpc[d] = "connecting" => Here(d) \in Conn \ {h} BY <1>2, <1>4, <2>7 DEF Conn
    <3>2. QED BY <1>3, <2>1, <2>7, <3>1 DEF FreshSound, ConnInv, Here
  <2>8. QED BY <1>3, <2>4, <2>5, <2>6, <2>7 DEF ConnInv, FreshSound
<1>7. listening \subseteq Server BY <1>1 DEF TypeOK
<1>8. QED BY <1>5, <1>6, <1>7 DEF socketConnection

\* What was received is the server's message if the server closed after writing it.
LEMMA ReceiveSteps ==
  ASSUME IpcInv, ConnInv, NEW c \in Client, get_message_from_socket(c) PROVE ConnInv'
<1>1. TypeOK BY DEF IpcInv
<1> DEFINE h == Here(c)
<1>2. cur[c] \in File /\ h = <<c, cur[c]>> /\ h \in Conn
  BY AtFile DEF get_message_from_socket, Visiting
<1>3. /\ UNCHANGED <<spc, client_fd, backlog, link>> /\ cpc'[c] # "connecting"
      /\ \A d \in Client \ {c} : cpc'[d] = cpc[d] /\ cur'[d] = cur[d]
      /\ entry[h].fd # None => link[h] \in {"closed", "reset"}
      /\ entry' = [entry EXCEPT ![h].sockMsg =
                     IF link[h] = "closed" THEN entry[h].fd ELSE Empty]
  BY <1>1 DEF TypeOK, get_message_from_socket, worldVars, serverVars
<1>4. /\ entry'[h].fd = entry[h].fd
      /\ entry'[h].sockMsg = IF link[h] = "closed" THEN entry[h].fd ELSE Empty
      /\ \A n \in Conn \ {h} : entry'[n] = entry[n]
  BY <1>1, <1>2, <1>3 DEF TypeOK, Entry
<1>5. ASSUME NEW n \in Conn PROVE ConnSound(n)'
  <2>1. ConnSound(n) /\ entry[n].fd \in Server \union {None}
    BY <1>1 DEF ConnInv, TypeOK, Entry
  <2>2. CASE n = h BY <1>3, <1>4, <2>1, <2>2, NoneIsNoServer DEF ConnSound
  <2>3. CASE n # h BY <1>3, <1>4, <2>1, <2>3 DEF ConnSound
  <2>4. QED BY <2>2, <2>3
<1>6. ASSUME NEW s \in Server PROVE QueueSound(s)'
  <2>1. /\ QueueSound(s) /\ client_fd[s] \in Conn \union {None}
        /\ \A k \in DOMAIN backlog[s] : backlog[s][k] \in Conn
    BY <1>1 DEF ConnInv, TypeOK
  <2>2. \A n \in Conn : entry'[n].fd = entry[n].fd BY <1>4
  <2>3. QED BY <1>3, <2>1, <2>2 DEF QueueSound
<1>7. ASSUME NEW d \in Client PROVE FreshSound(d)'
  <2>1. d # c /\ cpc[d] = "connecting" => Here(d) \in Conn \ {h} /\ Here(d)' = Here(d)
    BY <1>2, <1>3, AtFile DEF Visiting, Here, Conn
  <2>2. QED BY <1>3, <1>4, <2>1 DEF FreshSound, ConnInv
<1>8. QED BY <1>5, <1>6, <1>7 DEF ConnInv

-----------------------------------------------------------------------------
(* The theorem.                                                             *)

LEMMA ConnInit == Init => ConnInv
<1> SUFFICES ASSUME Init PROVE ConnInv OBVIOUS
<1>1. \A n \in Conn : entry[n].fd = None /\ link[n] = "none" BY DEF Init, NoEntry
<1>2. \A n \in Conn : ConnSound(n) BY <1>1 DEF ConnSound
<1>3. \A s \in Server : spc[s] # "accepted" BY DEF Init
<1>4. \A s \in Server : QueueSound(s) BY <1>3 DEF Init, QueueSound
<1>5. \A c \in Client : cpc[c] # "connecting" BY DEF Init
<1>6. QED BY <1>2, <1>4, <1>5 DEF ConnInv, FreshSound

LEMMA ConnStutter ==
  ASSUME ConnInv, UNCHANGED <<serverVars, clientVars, link>> PROVE ConnInv'
BY DEF ConnInv, ConnSound, QueueSound, FreshSound, Here, serverVars, clientVars

LEMMA ConnNext ==
  ASSUME IpcInv, ConnInv, [Next]_vars PROVE ConnInv'
<1>1. TypeOK BY DEF IpcInv
<1>2. ASSUME NEW s \in Server, StartServer(s) \/ ServerStep(s) \/ Kill(s) PROVE ConnInv'
  BY <1>1, <1>2, PlainSteps, ClosingSteps, AcceptStep, WriteStep DEF StartServer, ServerStep
<1>3. ASSUME NEW c \in Client, OpenDirectory(c) \/ ClientStep(c) PROVE ConnInv'
  BY <1>3, ScanSteps, ReadInfoStep, ConnectSteps, ReceiveSteps DEF ClientStep
<1>4. ASSUME NEW p \in Port, PortReleased(p) PROVE ConnInv'
  BY <1>4, ConnStutter DEF PortReleased
<1>5. CASE UNCHANGED vars BY <1>5, ConnStutter DEF vars
<1>6. QED BY <1>2, <1>3, <1>4, <1>5 DEF Next

\* A server writes its message to one client, the one that it has accepted; that
\* client reads it whole before the server has ended, and every other client that
\* came to the server reads nothing (get_connection, write_to_socket, shutdown
\* against get_message_from_socket), however many clients come and servers fail.
THEOREM IpcOneIsAnswered == ASSUME OwnConfiguration PROVE Spec => []OneIsAnswered
<1>1. IpcInv /\ ConnInv /\ [Next]_vars => ConnInv' BY ConnNext
<1>2. ConnInv => OneIsAnswered
  BY NoneIsNoServer DEF ConnInv, ConnSound, OneIsAnswered
<1>3. QED BY <1>1, <1>2, ConnInit, IpcSafe, PTL DEF Spec

-----------------------------------------------------------------------------
(* The hosts that a client counts.                                         *)

\* The connections that clients may make to the port of a server.
Crowd(s) ==
  {n \in Conn : \E t \in Server : FileOf[t] = n[2] /\ PortOf[t] = PortOf[s]}

\* No queue is ever full: listen (server_fd, 3) keeps four connections.
QueueHasRoom == \A s \in Server : Cardinality(Crowd(s)) <= QueueLimit

\* One server at a time listens at a port.
PortSound == \A s, t \in listening : PortOf[s] = PortOf[t] => s = t

\* A client is connected to the port that it has read in the info file.
AddressSound(n) ==
  entry[n].fd # None => entry[n].src \in Server /\ PortOf[entry[n].src] = PortOf[entry[n].fd]

\* How far the client has come with a file, for a server that serves.
Listed(c, s) == FileOf[s] \in todo[c]
BeingVisited(c, s) ==
  LET e == entry[<<c, FileOf[s]>>] IN
    /\ cpc[c] \in Visiting /\ cur[c] = FileOf[s]
    /\ e.src = s
    /\ cpc[c] # "connecting" => e.fd = s
    /\ cpc[c] = "attaching" => found[c] = s
Visited(c, s) ==
  LET e == entry[<<c, FileOf[s]>>] IN e.fd = s /\ e.shm = s

HostAt(c, s) ==
  /\ cpc[c] = "scanning" => Listed(c, s) \/ Visited(c, s)
  /\ cpc[c] \in Visiting =>
       Listed(c, s) \/ BeingVisited(c, s) \/ (Visited(c, s) /\ cur[c] # FileOf[s])
  /\ cpc[c] \in {"reading", "receiving", "ended"} => Visited(c, s)

HostSound(c) == \A s \in up[c] : Serving(s) => HostAt(c, s)

HostInv ==
  /\ PortSound
  /\ \A n \in Conn : AddressSound(n)
  /\ \A c \in Client : HostSound(c)

-----------------------------------------------------------------------------
(* Steps of servers, for the hosts.                                         *)

\* A server does not begin to serve a second time.
LEMMA ServesOn ==
  ASSUME TypeOK, NEW s \in Server, StartServer(s) \/ ServerStep(s) \/ Kill(s),
         NEW t \in Server, spc[t] \in Copied \union GonePlace, Serving(t)'
  PROVE  Serving(t)
BY DEF TypeOK, Serving, Copied, GonePlace, StartServer, ServerStep, Kill, FailAndExit,
       create_newServer, sharedMemoCreation, sharedMemoCreationFails, OpenInfoFile,
       FillInfoFile, BeginCopy, EndCopy, Accept, Timeout, write_to_socket, CloseListener,
       CloseClient, RemoveSegment, RemoveInfo

\* A server comes to listen at a port at which nobody listens.
LEMMA PortStep ==
  ASSUME TypeOK, PortSound, NEW s \in Server, StartServer(s) \/ ServerStep(s) \/ Kill(s)
  PROVE  PortSound'
<1>1. CASE create_newServer(s)
  <2>1. \A t \in listening : PortOf[t] # PortOf[s]
    BY <1>1 DEF create_newServer, PortFree, TypeOK
  <2>2. QED BY <1>1, <2>1 DEF create_newServer, PortSound
<1>2. CASE ~create_newServer(s)
  <2>1. listening' \subseteq listening
    BY <1>2 DEF StartServer, ServerStep, Kill, FailAndExit, freeResources, CloseAll,
       sharedMemoCreation, sharedMemoCreationFails, OpenInfoFile,
       FillInfoFile, BeginCopy, EndCopy, Accept, Timeout, write_to_socket, CloseListener,
       CloseClient, RemoveSegment, RemoveInfo
  <2>2. QED BY <2>1 DEF PortSound
<1>3. QED BY <1>1, <1>2

LEMMA HostServerStep ==
  ASSUME IpcInv, HostInv, NEW s \in Server, StartServer(s) \/ ServerStep(s) \/ Kill(s)
  PROVE  HostInv'
<1>1. TypeOK /\ \A c \in Client : UpSound(c) BY DEF IpcInv, ClientSound
<1>2. UNCHANGED clientVars
  BY DEF StartServer, ServerStep, Kill, FailAndExit, create_newServer,
       sharedMemoCreation, sharedMemoCreationFails, OpenInfoFile,
       FillInfoFile, BeginCopy, EndCopy, Accept, Timeout, write_to_socket, CloseListener,
       CloseClient, RemoveSegment, RemoveInfo
<1>3. ASSUME NEW c \in Client PROVE HostSound(c)'
  <2>1. \A t \in up[c] : t \in Server /\ (Serving(t)' => Serving(t))
    <3>1. \A t \in up[c] : t \in Server /\ spc[t] \in Copied \union GonePlace
      BY <1>1 DEF UpSound, TypeOK
    <3>2. QED BY <1>1, <3>1, ServesOn
  <2>2. HostSound(c) BY DEF HostInv
  <2>3. QED
    BY <1>2, <2>1, <2>2 DEF HostSound, HostAt, Listed, BeingVisited, Visited, clientVars
<1>4. \A n \in Conn : AddressSound(n)' BY <1>2 DEF HostInv, AddressSound, clientVars
<1>5. QED BY <1>1, <1>3, <1>4, PortStep DEF HostInv

-----------------------------------------------------------------------------
(* Steps of clients, for the hosts.                                         *)

\* A step of client c concerns its own files only.
LEMMA HostFrame ==
  ASSUME TypeOK, HostInv, NEW c \in Client, Visits(c), HostSound(c)',
         \A f \in File : AddressSound(<<c, f>>)'
  PROVE  HostInv'
<1>1. PortSound' BY DEF HostInv, PortSound, Visits
<1>2. ASSUME NEW n \in Conn PROVE AddressSound(n)'
  <2>1. PICK d \in Client, f \in File : n = <<d, f>> BY DEF Conn
  <2>2. CASE d = c BY <2>1, <2>2
  <2>3. CASE d # c
    <3>1. entry'[n] = entry[n] BY <2>1, <2>3 DEF Visits
    <3>2. QED BY <3>1 DEF HostInv, AddressSound
  <2>4. QED BY <2>2, <2>3
<1>3. ASSUME NEW d \in Client, d # c PROVE HostSound(d)'
  <2>1. /\ cpc'[d] = cpc[d] /\ todo'[d] = todo[d] /\ cur'[d] = cur[d]
        /\ found'[d] = found[d] /\ up'[d] = up[d]
        /\ \A f \in File : entry'[<<d, f>>] = entry[<<d, f>>]
        /\ spc' = spc
    BY <1>3 DEF Visits
  <2>2. \A s \in up[d] : FileOf[s] \in File BY DEF TypeOK, File
  <2>3. HostSound(d) BY DEF HostInv
  <2>4. QED BY <2>1, <2>2, <2>3 DEF HostSound, HostAt, Listed, BeingVisited, Visited, Serving
<1>4. QED BY <1>1, <1>2, <1>3 DEF HostInv

\* What a server that serves has, and what the client knows.
LEMMA ServingFacts ==
  ASSUME OwnConfiguration, IpcInv, NEW s \in Server, Serving(s)
  PROVE  /\ info[FileOf[s]] = s /\ FileOf[s] \in File
         /\ s \in listening
         /\ WithKey(KeyOf[s]) = {s} /\ Exists(s)
<1>1. SegmentSound(s) /\ SocketSound(s) /\ InfoSound(s) BY DEF IpcInv, ServerSound
<1>2. shmid[s] = s /\ seg[s] = "live" /\ s \in listening /\ info[FileOf[s]] = s
  BY <1>1 DEF SegmentSound, SocketSound, InfoSound, Serving, Attached, Holding, Open, Copied
<1>3. WithKey(KeyOf[s]) = {s} BY <1>2 DEF WithKey, OwnConfiguration
<1>4. QED BY <1>2, <1>3 DEF Exists, File

LEMMA HostScanSteps ==
  ASSUME OwnConfiguration, IpcInv, HostInv, NEW c \in Client,
         FileVanished(c) \/ Locate(c) \/ Sort(c) \/ disconnect(c)
  PROVE  HostInv'
<1>1. TypeOK BY DEF IpcInv
<1>2. Visits(c) /\ UNCHANGED <<entry, up, spc, cur>>
  <2>1. CASE Locate(c)
    <3>1. \A d \in Client \ {c} : found'[d] = found[d] BY <1>1, <2>1 DEF Locate, TypeOK
    <3>2. QED BY <1>1, <2>1, <3>1 DEF TypeOK, Visits, Locate, worldVars, serverVars
  <2>2. CASE FileVanished(c) \/ Sort(c) \/ disconnect(c)
    BY <1>1, <2>2 DEF TypeOK, Visits, FileVanished, Sort, disconnect, worldVars, serverVars
  <2>3. QED BY <2>1, <2>2
<1>3. \A f \in File : AddressSound(<<c, f>>)'
  BY <1>2 DEF HostInv, AddressSound, Conn
<1>4. HostSound(c)'
  <2> SUFFICES ASSUME NEW s \in up[c], Serving(s) PROVE HostAt(c, s)'
    BY <1>2 DEF HostSound, Serving
  <2>1. s \in Server BY <1>1 DEF TypeOK
  <2>2. HostAt(c, s) BY DEF HostInv, HostSound
  <2>3. Visited(c, s)' <=> Visited(c, s) BY <1>2 DEF Visited
  <2>4. CASE Locate(c)
    <3>1. /\ cpc[c] = "locating" /\ cpc'[c] = "attaching" /\ todo' = todo
      BY <1>1, <2>4 DEF TypeOK, Locate
    <3>2. BeingVisited(c, s) => BeingVisited(c, s)'
      <4> SUFFICES ASSUME BeingVisited(c, s) PROVE found'[c] = s
        BY <1>2, <3>1 DEF BeingVisited, Visiting
      <4>1. entry[Here(c)].src = s BY DEF BeingVisited, Here
      <4>2. WithKey(KeyOf[s]) = {s} BY <2>1, ServingFacts
      <4>3. found' = [found EXCEPT ![c] = s] BY <2>1, <2>4, <4>1, <4>2 DEF Locate
      <4>4. QED BY <1>1, <4>3 DEF TypeOK
    <3>3. QED BY <1>2, <2>2, <2>3, <3>1, <3>2 DEF HostAt, Listed, Visiting
  <2>5. CASE FileVanished(c)
    BY <1>1, <2>5 DEF TypeOK, FileVanished, HostAt, Visiting
  <2>6. CASE Sort(c)
    <3>1. cpc[c] = "scanning" /\ todo[c] = {} /\ cpc'[c] = "reading"
      BY <1>1, <2>6 DEF TypeOK, Sort
    <3>2. QED BY <2>2, <2>3, <3>1 DEF HostAt, Listed, Visiting
  <2>7. CASE disconnect(c)
    <3>1. cpc[c] = "reading" /\ cpc'[c] = "ended" BY <1>1, <2>7 DEF TypeOK, disconnect
    <3>2. QED BY <2>2, <2>3, <3>1 DEF HostAt, Visiting
  <2>8. QED BY <2>4, <2>5, <2>6, <2>7
<1>5. QED BY <1>1, <1>2, <1>3, <1>4, HostFrame

LEMMA HostOpenStep ==
  ASSUME OwnConfiguration, IpcInv, HostInv, NEW c \in Client, OpenDirectory(c)
  PROVE  HostInv'
<1>1. TypeOK BY DEF IpcInv
<1>2. /\ Visits(c) /\ UNCHANGED <<entry, spc>>
      /\ cpc'[c] = "scanning"
      /\ todo'[c] = {f \in File : info[f] # None}
      /\ up'[c] = {s \in Server : Serving(s)}
  BY <1>1 DEF TypeOK, Visits, OpenDirectory, worldVars, serverVars
<1>3. \A f \in File : AddressSound(<<c, f>>)'
  BY <1>2 DEF HostInv, AddressSound, Conn
<1>4. \A s \in up'[c] : Listed(c, s)'
  BY <1>2, ServingFacts, NoneIsNoServer DEF Listed
<1>5. HostSound(c)' BY <1>2, <1>4 DEF HostSound, HostAt, Visiting
<1>6. QED BY <1>1, <1>2, <1>3, <1>5, HostFrame

\* The steps that change one entry of the client, at the file f.
LEMMA HostEntryFrame ==
  ASSUME TypeOK, HostInv, NEW c \in Client, Visits(c), UNCHANGED up, NEW f \in File,
         \A g \in File \ {f} : entry'[<<c, g>>] = entry[<<c, g>>],
         AddressSound(<<c, f>>)',
         \A s \in up[c] : s \in Server /\ Serving(s) /\ HostAt(c, s) => HostAt(c, s)'
  PROVE  HostInv'
<1>1. ASSUME NEW g \in File PROVE AddressSound(<<c, g>>)'
  BY DEF HostInv, AddressSound, Conn
<1>2. HostSound(c)'
  <2>1. \A s \in up[c] : s \in Server BY DEF TypeOK
  <2>2. QED BY <2>1 DEF HostInv, HostSound, Serving, Visits
<1>3. QED BY <1>1, <1>2, HostFrame

\* The file of a server that serves is its own.
LEMMA HostReadStep ==
  ASSUME OwnConfiguration, IpcInv, HostInv, NEW c \in Client, ReadInfoFile(c)
  PROVE  HostInv'
<1> USE AtClient DEF worldVars, serverVars
<1>1. PICK f \in todo[c] :
        /\ info[f] # None
        /\ cur' = [cur EXCEPT ![c] = f]
        /\ todo' = [todo EXCEPT ![c] = @ \ {f}]
        /\ entry' = [entry EXCEPT ![<<c, f>>].src = info[f]]
  BY DEF ReadInfoFile
<1>2. f \in File /\ cpc[c] = "scanning" /\ \A g \in todo[c] : entry[<<c, g>>] = NoEntry
  BY DEF TypeOK, LoopSound, ReadInfoFile, Visiting
<1> DEFINE e == [NoEntry EXCEPT !.src = info[f]]
<1>3. e \in Entry /\ e.src = info[f] /\ e.fd = None
  BY <1>1, <1>2 DEF NoEntry, Entry, TypeOK, Msg
<1>4. entry' = [entry EXCEPT ![<<c, f>>] = e]
  BY <1>1, <1>2
<1> HIDE DEF e
<1>5. /\ entry'[<<c, f>>] = e
      /\ \A g \in File \ {f} : entry'[<<c, g>>] = entry[<<c, g>>]
      /\ \A d \in Client \ {c}, g \in File : entry'[<<d, g>>] = entry[<<d, g>>]
  BY <1>2, <1>3, <1>4, EntryChange
<1>6. /\ cpc'[c] = "connecting" /\ cur'[c] = f /\ todo'[c] = todo[c] \ {f}
      /\ todo[c] \subseteq File
      /\ \A d \in Client \ {c} : cpc'[d] = cpc[d] /\ todo'[d] = todo[d] /\ cur'[d] = cur[d]
  BY <1>1, <1>2 DEF TypeOK, ReadInfoFile
<1>7. /\ UNCHANGED <<found, up, spc, listening, backlog, client_fd, shmid, seg, mem, info, lingering>>
  BY DEF ReadInfoFile
<1>8. Visits(c) BY <1>5, <1>6, <1>7 DEF Visits
<1>9. AddressSound(<<c, f>>)' BY <1>3, <1>5 DEF AddressSound
<1>10. ASSUME NEW s \in up[c], s \in Server, Serving(s), HostAt(c, s) PROVE HostAt(c, s)'
  <2>1. info[FileOf[s]] = s /\ FileOf[s] \in File BY <1>10, ServingFacts
  <2>2. CASE FileOf[s] = f
    BY <1>3, <1>5, <1>6, <2>1, <2>2 DEF HostAt, BeingVisited, Visiting
  <2>3. CASE FileOf[s] # f
    <3>1. Listed(c, s) \/ Visited(c, s) BY <1>2, <1>10 DEF HostAt
    <3>2. Listed(c, s) => Listed(c, s)' BY <1>6, <2>3 DEF Listed
    <3>3. Visited(c, s) => Visited(c, s)' BY <1>5, <2>1, <2>3 DEF Visited
    <3>4. QED BY <1>6, <2>3, <3>1, <3>2, <3>3 DEF HostAt, Visiting
  <2>4. QED BY <2>2, <2>3
<1>11. QED BY <1>2, <1>5, <1>7, <1>8, <1>9, <1>10, HostEntryFrame

\* The queue that a client enters is the shorter by its own connection.
LEMMA RoomInQueue ==
  ASSUME QueueHasRoom, IpcInv, ConnInv, HostInv, NEW s \in Server,
         NEW h \in Crowd(s), entry[h].fd = None
  PROVE  Len(backlog[s]) < QueueLimit
<1>1. TypeOK /\ QueueSound(s) /\ backlog[s] \in Seq(Conn) /\ Len(backlog[s]) \in Nat
  BY DEF IpcInv, ConnInv, TypeOK
<1>2. IsFiniteSet(Crowd(s))
  <2>1. IsFiniteSet(File)
    <3>1. FileOf \in Surjection(Server, File)
      BY IpcAssumption DEF File, Surjection
    <3>2. QED BY <3>1, IpcAssumption, FS_Surjection
  <2>2. IsFiniteSet(Conn) BY <2>1, IpcAssumption, FS_Product DEF Conn
  <2>3. QED BY <2>2, FS_Subset DEF Crowd
<1> DEFINE q == backlog[s]
           room == Crowd(s) \ {h}
<1>3. \A k \in DOMAIN q : q[k] \in room
  <2> SUFFICES ASSUME NEW k \in DOMAIN q PROVE q[k] \in room
    OBVIOUS
  <2>1. q[k] \in Conn /\ entry[q[k]].fd = s BY <1>1 DEF QueueSound
  <2>2. q[k] # h BY <2>1, NoneIsNoServer
  <2>3. PICK t \in Server : t = entry[q[k]].src /\ PortOf[t] = PortOf[s]
    BY <2>1, NoneIsNoServer DEF HostInv, AddressSound
  <2>4. FileOf[t] = q[k][2]
    BY <2>1, <2>3 DEF IpcInv, ClientSound, EntrySound, Conn
  <2>5. QED BY <2>1, <2>2, <2>3, <2>4 DEF Crowd
<1>4. IsFiniteSet(room) /\ Cardinality(room) = Cardinality(Crowd(s)) - 1
  BY <1>2, FS_RemoveElement
<1>5. q \in Injection(1 .. Len(q), room)
  <2>1. DOMAIN q = 1 .. Len(q) /\ q = [k \in 1 .. Len(q) |-> q[k]] BY <1>1
  <2>2. q \in [1 .. Len(q) -> room] BY <1>3, <2>1
  <2>3. \A j, k \in 1 .. Len(q) : q[j] = q[k] => j = k BY <1>1, <2>1 DEF QueueSound
  <2>4. QED BY <2>2, <2>3 DEF Injection, IsInjective
<1>6. Cardinality(1 .. Len(q)) <= Cardinality(room) BY <1>4, <1>5, FS_Injection
<1>7. Cardinality(1 .. Len(q)) = Len(q) BY <1>1, FS_Interval
<1>8. Cardinality(Crowd(s)) \in Nat /\ Cardinality(Crowd(s)) <= QueueLimit
  BY <1>2, FS_CardinalityType DEF QueueHasRoom
<1>9. QED BY <1>1, <1>4, <1>6, <1>7, <1>8 DEF QueueLimit

\* A server that serves is the one that listens at its port, and it has room.
LEMMA HostConnectStep ==
  ASSUME OwnConfiguration, QueueHasRoom, IpcInv, ConnInv, HostInv, NEW c \in Client,
         socketConnection(c)
  PROVE  HostInv'
<1> USE AtClient
<1> DEFINE h == Here(c)
           src == entry[h].src
           open == {s \in listening : src \in Server /\ PortOf[s] = PortOf[src]
                                        /\ Len(backlog[s]) < QueueLimit}
<1>1. /\ cpc[c] = "connecting" /\ cur[c] \in File /\ h = <<c, cur[c]>> /\ h \in Conn
      /\ entry[h] \in Entry /\ entry[h].fd = None /\ cur[c] \notin todo[c]
  BY AtFile DEF socketConnection, LoopSound, Visiting, ConnInv, FreshSound
<1>2. PICK fd \in open \union {None} :
        /\ entry' = [entry EXCEPT ![h] = [entry[h] EXCEPT !.fd = fd]]
        /\ fd = None => open = {}
        /\ \A s \in Server \ listening : backlog'[s] = backlog[s]
  <2>1. CASE open = {} /\ UNCHANGED <<entry, backlog, link>>
    <3>1. [entry[h] EXCEPT !.fd = None] = entry[h] BY <1>1 DEF Entry
    <3>2. entry' = [entry EXCEPT ![h] = entry[h]] BY <2>1, <1>1 DEF TypeOK
    <3>3. QED BY <2>1, <3>1, <3>2
  <2>2. ASSUME NEW s \in open,
               entry' = [entry EXCEPT ![h].fd = s],
               backlog' = [backlog EXCEPT ![s] = Append(@, h)]
        PROVE  /\ entry' = [entry EXCEPT ![h] = [entry[h] EXCEPT !.fd = s]]
               /\ s # None
               /\ \A t \in Server \ listening : backlog'[t] = backlog[t]
    BY <2>2 DEF TypeOK
  <2>3. QED BY <2>1, <2>2 DEF socketConnection
<1> DEFINE e == [entry[h] EXCEPT !.fd = fd]
<1>3. /\ e \in Entry /\ e.src = src /\ e.fd = fd /\ e.shm = entry[h].shm
  <2>1. fd \in Server \union {None} BY <1>2 DEF TypeOK
  <2>2. QED BY <1>1, <2>1 DEF Entry
<1>4. fd # None => src \in Server /\ PortOf[src] = PortOf[fd] BY <1>2
<1>5. entry' = [entry EXCEPT ![<<c, cur[c]>>] = e] BY <1>1, <1>2
<1> HIDE DEF e
<1> PICK f \in File : f = cur[c] BY <1>1
<1>6. /\ entry'[<<c, f>>] = e
      /\ \A g \in File \ {f} : entry'[<<c, g>>] = entry[<<c, g>>]
      /\ \A d \in Client \ {c}, g \in File : entry'[<<d, g>>] = entry[<<d, g>>]
  BY <1>1, <1>3, <1>5, EntryChange
<1>7. /\ cpc'[c] = "locating"
      /\ \A d \in Client \ {c} : cpc'[d] = cpc[d]
      /\ UNCHANGED <<cur, todo, found, up, spc, listening, client_fd, shmid, seg, mem,
                     info, lingering>>
  BY DEF TypeOK, socketConnection
<1>8. Visits(c) BY <1>2, <1>6, <1>7 DEF Visits
<1>9. AddressSound(<<c, f>>)'
  <2>1. e.fd # None => e.src \in Server /\ PortOf[e.src] = PortOf[e.fd]
    BY <1>3, <1>4
  <2>2. QED BY <1>6, <2>1 DEF AddressSound
<1>10. ASSUME NEW s \in up[c], s \in Server, Serving(s), HostAt(c, s) PROVE HostAt(c, s)'
  <2>1. s \in listening /\ FileOf[s] \in File BY <1>10, ServingFacts
  <2>2. Listed(c, s) => Listed(c, s)' BY <1>7 DEF Listed
  <2>3. CASE cur[c] = FileOf[s]
    <3>1. ~Listed(c, s) BY <1>1, <2>3 DEF Listed
    <3>2. src = s BY <1>1, <1>10, <2>3, <3>1 DEF HostAt, BeingVisited, Visiting
    <3>3. h \in Crowd(s) BY <1>1, <1>10, <2>3 DEF Crowd
    <3>4. Len(backlog[s]) < QueueLimit BY <1>1, <1>10, <3>3, RoomInQueue
    <3>5. s \in open BY <1>10, <2>1, <3>2, <3>4
    <3>6. \A t \in open : t = s BY <2>1, <3>2 DEF HostInv, PortSound
    <3>7. fd = s BY <1>2, <3>5, <3>6
    <3>8. BeingVisited(c, s)' BY <1>3, <1>6, <1>7, <2>3, <3>2, <3>7 DEF BeingVisited, Visiting
    <3>9. QED BY <1>7, <3>8 DEF HostAt, Visiting
  <2>4. CASE cur[c] # FileOf[s]
    <3>1. Listed(c, s) \/ Visited(c, s) BY <1>1, <1>10, <2>4 DEF HostAt, BeingVisited, Visiting
    <3>2. Visited(c, s) => Visited(c, s)' BY <1>6, <2>1, <2>4 DEF Visited
    <3>3. QED BY <1>7, <2>2, <2>4, <3>1, <3>2 DEF HostAt, Visiting
  <2>5. QED BY <2>3, <2>4
<1>11. QED BY <1>1, <1>6, <1>7, <1>8, <1>9, <1>10, HostEntryFrame

\* The segment that was found by the key of a server that serves is there to attach.
LEMMA HostAttachStep ==
  ASSUME OwnConfiguration, IpcInv, HostInv, NEW c \in Client, sharedMemoAt(c)
  PROVE  HostInv'
<1> USE AtClient DEF worldVars, serverVars
<1> DEFINE h == Here(c)
           i == IF found[c] # None /\ Exists(found[c]) THEN found[c] ELSE None
           e == [entry[h] EXCEPT !.shm = i]
<1>1. /\ cpc[c] = "attaching" /\ cur[c] \in File /\ h = <<c, cur[c]>> /\ h \in Conn
      /\ entry[h] \in Entry /\ cur[c] \notin todo[c]
  BY AtFile DEF sharedMemoAt, LoopSound, Visiting
<1>2. entry' = [entry EXCEPT ![<<c, cur[c]>>] = e] BY <1>1 DEF sharedMemoAt
<1>3. i \in Server \union {None} BY DEF TypeOK
<1>4. \A s \in Server : found[c] = s /\ Exists(s) => i = s OBVIOUS
<1> HIDE DEF i
<1>5. e \in Entry /\ e.src = entry[h].src /\ e.fd = entry[h].fd /\ e.shm = i
  BY <1>1, <1>3 DEF Entry
<1> HIDE DEF e
<1> PICK f \in File : f = cur[c] BY <1>1
<1>6. /\ entry'[<<c, f>>] = e
      /\ \A g \in File \ {f} : entry'[<<c, g>>] = entry[<<c, g>>]
      /\ \A d \in Client \ {c}, g \in File : entry'[<<d, g>>] = entry[<<d, g>>]
  BY <1>1, <1>2, <1>5, EntryChange
<1>7. /\ cpc'[c] = "scanning"
      /\ \A d \in Client \ {c} : cpc'[d] = cpc[d] /\ cur'[d] = cur[d] /\ found'[d] = found[d]
      /\ UNCHANGED <<todo, up, spc, listening, backlog, client_fd, shmid, seg, mem,
                     info, lingering>>
  BY DEF TypeOK, sharedMemoAt
<1>8. Visits(c) BY <1>6, <1>7 DEF Visits
<1>9. AddressSound(<<c, f>>)'
  <2>1. AddressSound(h) BY <1>1 DEF HostInv
  <2>2. e.fd # None => e.src \in Server /\ PortOf[e.src] = PortOf[e.fd]
    BY <1>5, <2>1 DEF AddressSound
  <2>3. QED BY <1>6, <2>2 DEF AddressSound
<1>10. ASSUME NEW s \in up[c], s \in Server, Serving(s), HostAt(c, s) PROVE HostAt(c, s)'
  <2>1. Exists(s) /\ FileOf[s] \in File BY <1>10, ServingFacts
  <2>2. Listed(c, s) => Listed(c, s)' BY <1>7 DEF Listed
  <2>3. CASE cur[c] = FileOf[s]
    <3>1. BeingVisited(c, s) BY <1>1, <1>10, <2>3 DEF HostAt, Listed, Visiting
    <3>2. entry[h].fd = s /\ found[c] = s BY <1>1, <2>3, <3>1 DEF BeingVisited
    <3>3. i = s BY <1>4, <1>10, <2>1, <3>2
    <3>4. Visited(c, s)' BY <1>5, <1>6, <2>3, <3>2, <3>3 DEF Visited
    <3>5. QED BY <1>7, <3>4 DEF HostAt, Visiting
  <2>4. CASE cur[c] # FileOf[s]
    <3>1. Listed(c, s) \/ Visited(c, s) BY <1>1, <1>10, <2>4 DEF HostAt, BeingVisited, Visiting
    <3>2. Visited(c, s) => Visited(c, s)' BY <1>6, <2>1, <2>4 DEF Visited
    <3>3. QED BY <1>7, <2>2, <3>1, <3>2 DEF HostAt, Visiting
  <2>5. QED BY <2>3, <2>4
<1>11. UNCHANGED up BY <1>7
<1>12. QED BY <1>1, <1>6, <1>8, <1>9, <1>10, <1>11, HostEntryFrame

\* The messages are no part of what a client counts.
LEMMA HostMessageSteps ==
  ASSUME IpcInv, HostInv, NEW c \in Client,
         get_message_from_shm(c) \/ get_message_from_socket(c)
  PROVE  HostInv'
<1> USE AtClient DEF worldVars, serverVars
<1>1. PICK f \in File :
        /\ \A g \in File \ {f} : entry'[<<c, g>>] = entry[<<c, g>>]
        /\ \A d \in Client \ {c}, g \in File : entry'[<<d, g>>] = entry[<<d, g>>]
        /\ entry'[<<c, f>>].src = entry[<<c, f>>].src
        /\ entry'[<<c, f>>].fd = entry[<<c, f>>].fd
        /\ entry'[<<c, f>>].shm = entry[<<c, f>>].shm
  <2>1. CASE get_message_from_shm(c)
    <3>1. PICK f \in todo[c] :
            entry' = [entry EXCEPT ![<<c, f>>].shmMsg =
                        IF entry[<<c, f>>].shm = None THEN Empty ELSE mem[entry[<<c, f>>].shm]]
      BY <2>1 DEF get_message_from_shm
    <3>2. f \in File /\ entry \in [Conn -> Entry] BY DEF TypeOK
    <3>3. /\ entry'[<<c, f>>].src = entry[<<c, f>>].src
          /\ entry'[<<c, f>>].fd = entry[<<c, f>>].fd
          /\ entry'[<<c, f>>].shm = entry[<<c, f>>].shm
      BY <3>1, <3>2 DEF Entry
    <3>4. \A n \in Conn \ {<<c, f>>} : entry'[n] = entry[n] BY <3>1, <3>2
    <3>5. QED BY <3>2, <3>3, <3>4 DEF Conn
  <2>2. CASE get_message_from_socket(c)
    <3>1. cur[c] \in File /\ Here(c) = <<c, cur[c]>>
      BY <2>2, AtFile DEF get_message_from_socket
    <3>2. PICK m : entry' = [entry EXCEPT ![<<c, cur[c]>>].sockMsg = m]
      BY <2>2, <3>1 DEF get_message_from_socket
    <3>3. entry \in [Conn -> Entry] BY DEF TypeOK
    <3>4. /\ entry'[<<c, cur[c]>>].src = entry[<<c, cur[c]>>].src
          /\ entry'[<<c, cur[c]>>].fd = entry[<<c, cur[c]>>].fd
          /\ entry'[<<c, cur[c]>>].shm = entry[<<c, cur[c]>>].shm
      BY <3>1, <3>2, <3>3 DEF Entry
    <3>5. \A n \in Conn \ {<<c, cur[c]>>} : entry'[n] = entry[n] BY <3>2, <3>3
    <3>6. QED BY <3>1, <3>4, <3>5 DEF Conn
  <2>3. QED BY <2>1, <2>2
<1>2. /\ cpc[c] \in {"reading", "receiving"} /\ cpc'[c] \in {"reading", "receiving"}
      /\ \A d \in Client \ {c} : cpc'[d] = cpc[d] /\ cur'[d] = cur[d] /\ todo'[d] = todo[d]
      /\ UNCHANGED <<found, up, spc, listening, backlog, client_fd, shmid, seg, mem,
                     info, lingering>>
  <2>1. CASE get_message_from_shm(c)
    <3>1. PICK g \in todo[c] : cur' = [cur EXCEPT ![c] = g]
      BY <2>1 DEF get_message_from_shm
    <3>2. QED BY <2>1, <3>1 DEF get_message_from_shm, TypeOK
  <2>2. CASE get_message_from_socket(c) BY <2>2 DEF get_message_from_socket, TypeOK
  <2>3. QED BY <2>1, <2>2
<1>3. Visits(c) BY <1>1, <1>2 DEF Visits
<1>4. AddressSound(<<c, f>>)' BY <1>1 DEF AddressSound, HostInv
<1>5. ASSUME NEW s \in up[c], s \in Server, HostAt(c, s) PROVE HostAt(c, s)'
  <2>1. FileOf[s] \in File BY <1>5 DEF File
  <2>2. Visited(c, s) BY <1>2, <1>5 DEF HostAt
  <2>3. Visited(c, s)' BY <1>1, <2>1, <2>2 DEF Visited
  <2>4. QED BY <1>2, <2>3 DEF HostAt, Visiting
<1>6. QED BY <1>1, <1>2, <1>3, <1>4, <1>5, HostEntryFrame

-----------------------------------------------------------------------------
(* The theorem.                                                             *)

LEMMA HostInit == Init => HostInv
<1> SUFFICES ASSUME Init PROVE HostInv OBVIOUS
<1>1. \A n \in Conn : entry[n].fd = None BY DEF Init, NoEntry
<1>2. QED BY <1>1 DEF Init, HostInv, PortSound, AddressSound, HostSound

LEMMA HostStutter ==
  ASSUME HostInv, UNCHANGED <<spc, listening, clientVars>> PROVE HostInv'
BY DEF HostInv, PortSound, AddressSound, HostSound, HostAt, Listed, BeingVisited, Visited,
       Serving, clientVars

LEMMA HostNext ==
  ASSUME OwnConfiguration, QueueHasRoom, IpcInv, ConnInv, HostInv, [Next]_vars
  PROVE  HostInv'
<1>1. ASSUME NEW s \in Server, StartServer(s) \/ ServerStep(s) \/ Kill(s) PROVE HostInv'
  BY <1>1, HostServerStep
<1>2. ASSUME NEW c \in Client, OpenDirectory(c) \/ ClientStep(c) PROVE HostInv'
  BY <1>2, HostOpenStep, HostReadStep, HostScanSteps, HostConnectStep, HostAttachStep,
     HostMessageSteps DEF ClientStep
<1>3. ASSUME NEW p \in Port, PortReleased(p) PROVE HostInv'
  BY <1>3, HostStutter DEF PortReleased, serverVars
<1>4. CASE UNCHANGED vars BY <1>4, HostStutter DEF vars, serverVars
<1>5. QED BY <1>1, <1>2, <1>3, <1>4 DEF Next

\* A client that has scanned the directory counts as a host each server that has
\* served since the client opened the directory, with its own socket and segment
\* (count_servers, print_server_infos), if no queue of connections is ever full;
\* other servers may start, fail or be killed on any port meanwhile.
THEOREM IpcStableIsHost ==
  ASSUME OwnConfiguration, QueueHasRoom PROVE Spec => []StableServerIsHost
<1>1. IpcInv /\ ConnInv /\ [Next]_vars => ConnInv' BY ConnNext
<1>2. IpcInv /\ ConnInv /\ HostInv /\ [Next]_vars => HostInv' BY HostNext
<1>3. IpcInv /\ HostInv => StableServerIsHost
  <2> SUFFICES ASSUME IpcInv, HostInv, NEW c \in Client,
                      cpc[c] \in {"reading", "receiving", "ended"},
                      NEW s \in up[c], Serving(s)
               PROVE  LET e == entry[<<c, FileOf[s]>>]
                      IN  Kind(e) = "host" /\ e.fd = s /\ e.shm = shmid[s]
    BY DEF StableServerIsHost
  <2>1. s \in Server BY DEF IpcInv, TypeOK
  <2>2. Visited(c, s) BY DEF HostInv, HostSound, HostAt
  <2>3. shmid[s] = s BY <2>1 DEF IpcInv, ServerSound, SegmentSound, Serving, Attached
  <2>4. QED BY <2>1, <2>2, <2>3, NoneIsNoServer DEF Visited, Kind
<1>4. QED BY <1>1, <1>2, <1>3, ConnInit, HostInit, IpcSafe, PTL DEF Spec

=============================================================================
