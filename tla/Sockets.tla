------------------------------ MODULE Sockets -------------------------------
(***************************************************************************)
(* Sockets (torqueSim/platform/platformNetwork.cc), the asynchronous name  *)
(* lookup (platformNetAsync.cc) and the telnet adapter that takes sockets  *)
(* from them (platformTelnet.cc).                                          *)
(*                                                                         *)
(* A handle is an index into the list of reserved sockets; it may be       *)
(* reserved before there is a descriptor for it.  Net::process() walks the *)
(* list of polled sockets one entry a step; where it calls back, the       *)
(* application may open and close sockets before it goes on.  The outcome  *)
(* of a call to the operating system is a parameter of the step.           *)
(***************************************************************************)
EXTENDS Integers, Sequences, FiniteSets, SequencesExt, FiniteSetsExt, Selection

CONSTANTS MaxHandles,   \* bound: entries of mSocketList
          MaxFds,       \* bound: descriptors of the process
          MaxPolled,    \* bound: entries of gPolledSockets
          Hosts,        \* names to look up
          Unknown,      \* those of them nobody resolves
          MaxInits,     \* bound: calls of Net::init, and lookup threads
          Uses          \* bound: which parts one run of the program uses

ASSUME NetAssumption == /\ {MaxHandles, MaxFds, MaxPolled, MaxInits} \subseteq Nat
                        /\ Unknown \subseteq Hosts

VARIABLES net,        \* the reserved sockets and the descriptors
          polled,     \* gPolledSockets
          ports,      \* udpSocket, udp6Socket, multicast6Socket, initCount
          requests,   \* mLookupRequests
          async,      \* the lookup threads and mRunning
          pass,       \* where Net::process() is
          telnet,     \* mListeners and mClients of the telnet adapter, and
                      \* the sockets an application opened for itself
          use         \* the parts that are used, a member of Uses

netVars == <<net, polled, ports, requests, async, pass, telnet, use>>

INVALID == 0          \* NetSocket::INVALID; handles count from 1
NoFd == 0
Fds == 1 .. MaxFds
Null == [h |-> INVALID]
Nowhere == "nowhere"
NoAddress == "0.0.0.0"

Free == [used |-> FALSE, fd |-> NoFd]
Closed == [kind |-> "closed", to |-> Nowhere]
Idle == [stage |-> "idle", i |-> 1, fd |-> NoFd, cb |-> "", drop |-> INVALID]

NetInit ==
    /\ net = [slots |-> <<>>, os |-> [f \in Fds |-> Closed]]
    /\ polled = <<>>
    /\ ports = [udp |-> INVALID, udp6 |-> INVALID, multicast |-> INVALID, inits |-> 0]
    /\ requests = <<>>
    /\ async = [running |-> FALSE, workers |-> <<>>]
    /\ pass = Idle
    /\ telnet = [listener |-> INVALID, clients |-> {}, own |-> {}]
    /\ use \in Uses
-----------------------------------------------------------------------------
(* ReservedSocketList.  n is the value of net. *)

FreeSlots(n) == {h \in DOMAIN n.slots : n.slots[h] = Free}
NextHandle(n) == IF FreeSlots(n) = {} THEN Len(n.slots) + 1 ELSE Min(FreeSlots(n))
CanReserve(n) == NextHandle(n) <= MaxHandles
reserve(n, fd) ==
    LET e == [used |-> TRUE, fd |-> fd]
    IN [n EXCEPT !.slots = IF FreeSlots(n) = {} THEN Append(@, e) ELSE [@ EXCEPT ![NextHandle(n)] = e]]
remove(n, h) == [n EXCEPT !.slots = IF h \in DOMAIN @ THEN [@ EXCEPT ![h] = Free] ELSE @]
resolve(n, h) == IF h \in DOMAIN n.slots /\ n.slots[h].used THEN n.slots[h].fd ELSE NoFd

\* ::socket: the lowest descriptor that is free, if there is one.
FreeFds(n) == {f \in Fds : n.os[f] = Closed}
Opened(n, kind) == [n EXCEPT !.os[Min(FreeFds(n))] = [kind |-> kind, to |-> Nowhere]]

\* activate: the descriptor of a handle, made if it has none yet; "made" is
\* the outcome of ::socket.
activate(n, h, kind, made, clearOnFail) ==
    IF h \notin DOMAIN n.slots \/ ~n.slots[h].used \/ n.slots[h].fd # NoFd THEN n
    ELSE IF made THEN [Opened(n, kind) EXCEPT !.slots[h].fd = Min(FreeFds(n))]
    ELSE IF clearOnFail THEN remove(n, h) ELSE n
\* ::connect on the descriptor of a handle.
Connecting(n, h, to) ==
    IF resolve(n, h) \in Fds THEN [n EXCEPT !.os[resolve(n, h)].to = to] ELSE n

closeSocket(n, h) ==
    LET f == resolve(n, h)
    IN [remove(n, h) EXCEPT !.os = IF f = NoFd THEN @ ELSE [@ EXCEPT ![f] = Closed]]

Makes(n) == IF FreeFds(n) = {} THEN {FALSE} ELSE BOOLEAN
-----------------------------------------------------------------------------
(* Polled sockets.  "seen" is set when a pass of process() visits the      *)
(* entry; "asked" is where the application wants to be connected to, and   *)
(* "own" whether the lookup it needs for that was queued: history.         *)

PolledSocket(h, fd, state, asked) ==
    [h |-> h, fd |-> fd, state |-> state, asked |-> asked, own |-> TRUE, seen |-> FALSE]
addPolledSocket(list, e) == Append(list, e)
Entry(list, h) == {i \in DOMAIN list : list[i].h = h}
\* Mutant: the entry is taken out at once.
closeConnectToErases(list, h) ==
    IF h = INVALID \/ Entry(list, h) = {} THEN list ELSE RemoveAt(list, Min(Entry(list, h)))
\* closeConnectTo, the list: the entry is cleared, process() erases it.
closeConnectTo(list, h) ==
    IF h = INVALID \/ Entry(list, h) = {} THEN list ELSE [list EXCEPT ![Min(Entry(list, h))] = Null]

\* The application runs between passes and in callbacks.
AppRuns == pass.stage = "idle" \/ pass.cb # ""
Room == CanReserve(net) /\ Len(polled) < MaxPolled

OpenConnect(asked) ==
    \E made \in Makes(net), refused \in BOOLEAN :
      LET h == NextHandle(net)
          n == activate(reserve(net, NoFd), h, "tcp", made, TRUE)
      IN IF ~made THEN net' = remove(n, h) /\ UNCHANGED polled
         ELSE IF refused THEN net' = closeSocket(n, h) /\ UNCHANGED polled
         ELSE /\ net' = Connecting(n, h, asked)
              /\ polled' = addPolledSocket(polled, PolledSocket(h, resolve(n, h), "ConnectionPending", asked))
\* One lookup per socket: another one for the same handle is ignored.
LookupUnderWay(h) == \E i \in DOMAIN requests : requests[i].sock = h
queueLookup(name, h) ==
    requests' = IF LookupUnderWay(h) THEN requests
                ELSE Append(requests, [sock |-> h, name |-> name, out |-> Nowhere, found |-> FALSE, complete |-> FALSE])
\* An address string that holds an address, and one that holds a name.
openConnectTo ==
    /\ AppRuns /\ Room
    /\ OpenConnect("address")
    /\ UNCHANGED <<ports, requests, async, pass, telnet, use>>
openConnectToName(name) ==
    /\ AppRuns /\ Room
    /\ net' = reserve(net, NoFd)
    /\ polled' = addPolledSocket(polled, [PolledSocket(NextHandle(net), NoFd, "NameLookupRequired", name)
                                           EXCEPT !.own = ~LookupUnderWay(NextHandle(net))])
    /\ queueLookup(name, NextHandle(net))
    /\ UNCHANGED <<ports, async, pass, telnet, use>>
CloseConnectTo(h) ==
    /\ AppRuns /\ Entry(polled, h) # {}
    /\ polled' = closeConnectTo(polled, h) /\ net' = closeSocket(net, h)
    /\ UNCHANGED <<ports, requests, async, pass, telnet, use>>

\* openListenPort: the handle, unless socket, bind or listen fails.
ListenSocket(h, made, fails) ==
    LET n == activate(reserve(net, NoFd), h, "listen", made, TRUE)
    IN IF made /\ fails THEN closeSocket(n, h) ELSE n
openListenPort(h, made, fails) ==
    LET n == ListenSocket(h, made, fails)
    IN /\ net' = n
       /\ polled' = IF made /\ ~fails
                    THEN addPolledSocket(polled, PolledSocket(h, resolve(n, h), "Listening", Nowhere)) ELSE polled
-----------------------------------------------------------------------------
(* The UDP ports. *)

OpenedPort(n, kind, made, fails) ==
    IF ~made THEN [n |-> n, h |-> INVALID]
    ELSE LET h == NextHandle(n)
             o == reserve(Opened(n, kind), Min(FreeFds(n)))
         IN IF fails THEN [n |-> closeSocket(o, h), h |-> INVALID] ELSE [n |-> o, h |-> h]
\* enableMulticast uses the ipv6 socket, if it has a descriptor.
Multicast(n, p, made, joins) ==
    IF ~made THEN p.multicast
    ELSE IF joins = "no" THEN INVALID
    ELSE IF resolve(n, p.udp6) = NoFd THEN p.multicast
    ELSE IF joins = "fails" THEN INVALID ELSE p.udp6
openPort ==
    /\ AppRuns /\ Cardinality(FreeSlots(net)) + MaxHandles - Len(net.slots) >= 2
    /\ LET n0 == closeSocket(closeSocket(net, ports.udp), ports.udp6)
       IN \E made \in Makes(n0), fails \in BOOLEAN :
            LET v4 == OpenedPort(n0, "udp", made, fails)
            IN \E made6 \in Makes(v4.n), fails6 \in BOOLEAN, joins \in {"no", "fails", "yes"} :
                 LET v6 == OpenedPort(v4.n, "udp6", made6, fails6)
                     p == [ports EXCEPT !.udp = v4.h, !.udp6 = v6.h]
                 IN /\ net' = v6.n
                    /\ ports' = [p EXCEPT !.multicast = Multicast(v6.n, p, made6, joins)]
    /\ UNCHANGED <<polled, requests, async, pass, telnet, use>>
\* closePort leaves the handles in udpSocket and udp6Socket.
ClosedPorts(n) == closeSocket(closeSocket(n, ports.udp), ports.udp6)
closePort ==
    /\ AppRuns
    /\ net' = ClosedPorts(net)
    /\ UNCHANGED <<polled, ports, requests, async, pass, telnet, use>>
-----------------------------------------------------------------------------
(* The lookup threads.  mRunning is what a thread looks at: one that sleeps *)
(* while it is cleared and set again goes on beside the new one.           *)

init ==
    /\ pass.stage = "idle"
    /\ ports.inits < MaxInits
    /\ IF ports.inits = 0 /\ ~async.running /\ Len(async.workers) < MaxInits
       THEN async' = [async EXCEPT !.workers = Append(@, [at |-> "start", job |-> INVALID])]
       ELSE UNCHANGED async
    /\ ports' = [ports EXCEPT !.inits = @ + 1]
    /\ UNCHANGED <<net, polled, requests, pass, telnet, use>>
\* All polled sockets are closed, then the ports; the thread is stopped
\* whatever initCount is.
shutdown ==
    /\ pass.stage = "idle" /\ ports.inits > 0
    /\ net' = ClosedPorts(FoldLeft(LAMBDA n, e : closeSocket(n, e.h), net, polled))
    /\ polled' = <<>>
    /\ ports' = [ports EXCEPT !.inits = @ - 1]
    /\ async' = [async EXCEPT !.running = FALSE]
    /\ UNCHANGED <<requests, pass, telnet, use>>

SetWorker(w, at, job, running) ==
    async' = [async EXCEPT !.workers[w] = [at |-> at, job |-> job], !.running = running]
workerStarts(w) ==
    /\ async.workers[w].at = "start"
    /\ IF async.running THEN SetWorker(w, "done", INVALID, TRUE) ELSE SetWorker(w, "check", INVALID, TRUE)
    /\ UNCHANGED <<net, polled, ports, requests, pass, telnet, use>>
\* The loop of run(): the last request that is not complete is taken.
Incomplete == {i \in DOMAIN requests : ~requests[i].complete}
workerTakes(w) ==
    /\ async.workers[w].at = "check"
    /\ IF ~async.running THEN SetWorker(w, "done", INVALID, FALSE)
       ELSE Incomplete # {} /\ SetWorker(w, "work", requests[Max(Incomplete)].sock, TRUE)
    /\ UNCHANGED <<net, polled, ports, requests, pass, telnet, use>>
\* stringToAddress with a lookup: for a name that getaddrinfo does not know
\* it returns NoError and an address of zeros.
Resolved(name) == IF name \in Unknown THEN NoAddress ELSE name
workerAnswers(w) ==
    LET job == {i \in DOMAIN requests : requests[i].sock = async.workers[w].job}
    IN /\ async.workers[w].at = "work"
       /\ requests' = [i \in DOMAIN requests |->
            IF i \in job THEN [requests[i] EXCEPT !.out = Resolved(requests[i].name), !.found = TRUE, !.complete = TRUE]
            ELSE requests[i]]
       /\ SetWorker(w, "check", INVALID, async.running)
       /\ UNCHANGED <<net, polled, ports, pass, telnet, use>>
Answers(h) == {i \in DOMAIN requests : requests[i].sock = h /\ requests[i].complete}
-----------------------------------------------------------------------------
(* Net::process() *)

beginProcess ==
    /\ pass.stage = "idle"
    /\ pass' = [Idle EXCEPT !.stage = "udp", !.fd = resolve(net, ports.udp)]
    /\ polled' = [i \in DOMAIN polled |-> IF polled[i] = Null THEN Null ELSE [polled[i] EXCEPT !.seen = FALSE]]
    /\ UNCHANGED <<net, ports, requests, async, telnet, use>>
\* processListenSocket keeps the descriptor while callbacks run.
receivePacket ==
    /\ pass.stage \in {"udp", "udp6"} /\ pass.cb = ""
    /\ pass.fd # NoFd /\ net.os[pass.fd].kind # "closed"
    /\ pass' = [pass EXCEPT !.cb = "packet"]
    /\ UNCHANGED <<net, polled, ports, requests, async, telnet, use>>
nothingReceived ==
    /\ pass.stage \in {"udp", "udp6"} /\ pass.cb = ""
    /\ pass' = IF pass.stage = "udp" THEN [pass EXCEPT !.stage = "udp6", !.fd = resolve(net, ports.udp6)]
               ELSE [pass EXCEPT !.stage = "tcp", !.fd = NoFd]
    /\ UNCHANGED <<net, polled, ports, requests, async, telnet, use>>

Visits(state) ==
    /\ pass.stage = "tcp" /\ pass.cb = "" /\ pass.i <= Len(polled)
    /\ polled[pass.i] # Null /\ polled[pass.i].state = state
    /\ UNCHANGED <<ports, async, telnet, use>>
Here == polled[pass.i]
\* The entry was looked at and is in this state now.
Seen(state, fd) == [polled EXCEPT ![pass.i].seen = TRUE, ![pass.i].state = state, ![pass.i].fd = fd]
CallBack(what) == pass' = [pass EXCEPT !.cb = what]
CallBackAndDrop(what) == pass' = [pass EXCEPT !.cb = what, !.drop = Here.h]
Advance == pass' = [pass EXCEPT !.i = @ + 1]

eraseRemoved ==
    /\ pass.stage = "tcp" /\ pass.cb = "" /\ pass.i <= Len(polled)
    /\ polled[pass.i] = Null
    /\ polled' = RemoveAt(polled, pass.i)
    /\ UNCHANGED <<net, ports, requests, async, pass, telnet, use>>
endProcess ==
    /\ pass.stage = "tcp" /\ pass.cb = "" /\ pass.i > Len(polled)
    /\ pass' = Idle
    /\ UNCHANGED <<net, polled, ports, requests, async, telnet, use>>

IsOpen(f) == f # NoFd /\ net.os[f].kind # "closed"
pollPending ==
    /\ Visits("ConnectionPending")
    /\ UNCHANGED <<net, requests>>
    /\ \/ polled' = Seen("ConnectionPending", Here.fd) /\ CallBackAndDrop("ConnectFailed")
       \/ IsOpen(Here.fd) /\ polled' = Seen("ConnectionPending", Here.fd) /\ Advance
       \/ IsOpen(Here.fd) /\ resolve(net, Here.h) # NoFd /\ polled' = Seen("Connected", Here.fd) /\ CallBack("Connected")
pollConnected ==
    /\ Visits("Connected")
    /\ polled' = Seen("Connected", Here.fd)
    /\ UNCHANGED <<net, requests>>
    /\ \/ resolve(net, Here.h) # NoFd /\ CallBack("data")
       \/ resolve(net, Here.h) # NoFd /\ Advance
       \/ CallBackAndDrop("Disconnected")
\* The state that process() gives a socket that is connected is Net's
\* Connected, which is the number of ConnectionPending.
NowConnected == "ConnectionPending"
pollLookup ==
    /\ Visits("NameLookupRequired")
    /\ \/ /\ Answers(Here.h) = {}
          /\ polled' = Seen("NameLookupRequired", NoFd) /\ Advance
          /\ UNCHANGED <<net, requests>>
       \/ /\ Answers(Here.h) # {}
          /\ requests' = RemoveAt(requests, Min(Answers(Here.h)))
          /\ LET r == requests[Min(Answers(Here.h))]
             IN IF ~r.found
                THEN net' = net /\ polled' = Seen("NameLookupRequired", NoFd) /\ CallBackAndDrop("DNSFailed")
                ELSE \E made \in Makes(net), how \in {"fails", "blocks", "connects"} :
                       LET n == activate(net, Here.h, "tcp", made, FALSE)
                           fd == resolve(n, Here.h)
                       IN \/ /\ how = "fails" \/ fd = NoFd
                             /\ net' = n /\ polled' = Seen("NameLookupRequired", fd)
                             /\ CallBackAndDrop("ConnectFailed")
                          \/ /\ how # "fails" /\ fd # NoFd
                             /\ net' = Connecting(n, Here.h, r.out)
                             /\ polled' = Seen(IF how = "blocks" THEN "ConnectionPending" ELSE NowConnected, fd)
                             /\ CallBack(IF how = "blocks" THEN "DNSResolved" ELSE "Connected")
pollListening ==
    /\ Visits("Listening")
    /\ UNCHANGED requests
    /\ \/ polled' = Seen("Listening", Here.fd) /\ Advance /\ UNCHANGED net
       \/ /\ resolve(net, Here.h) # NoFd /\ FreeFds(net) # {} /\ Room
          /\ net' = reserve(Opened(net, "tcp"), Min(FreeFds(net)))
          /\ polled' = addPolledSocket(Seen("Listening", Here.fd),
                         PolledSocket(NextHandle(net), Min(FreeFds(net)), NowConnected, Nowhere))
          /\ CallBack("accept")
\* A socket that failed is closed after its callback, by its handle.
callbackReturns ==
    /\ pass.cb # ""
    /\ UNCHANGED <<ports, requests, async, telnet, use>>
    /\ IF pass.drop # INVALID
       THEN /\ polled' = closeConnectTo(polled, pass.drop) /\ net' = closeSocket(net, pass.drop)
            /\ pass' = [pass EXCEPT !.cb = "", !.drop = INVALID]
       ELSE /\ UNCHANGED <<net, polled>>
            /\ pass' = [pass EXCEPT !.cb = "", !.i = IF pass.stage = "tcp" THEN @ + 1 ELSE @]
-----------------------------------------------------------------------------
(* The telnet adapter: it closes its sockets with closeSocket. *)

StopListen(n) == closeSocket(n, telnet.listener)
\* Starting again is stopListen and then this: nothing runs between them.
startListen ==
    /\ pass.stage = "idle" /\ Room
    /\ telnet.listener = INVALID
    /\ \E made \in Makes(net), fails \in BOOLEAN :
         /\ openListenPort(NextHandle(net), made, fails)
         /\ telnet' = [telnet EXCEPT !.listener = IF made /\ ~fails THEN NextHandle(net) ELSE INVALID]
    /\ UNCHANGED <<ports, requests, async, pass, use>>
stopListen ==
    /\ pass.stage = "idle" /\ telnet.listener # INVALID
    /\ net' = StopListen(net)
    /\ telnet' = [telnet EXCEPT !.listener = INVALID]
    /\ UNCHANGED <<polled, ports, requests, async, pass, use>>
checkAccept ==
    /\ pass.stage = "idle" /\ resolve(net, telnet.listener) # NoFd
    /\ FreeFds(net) # {} /\ CanReserve(net)
    /\ net' = reserve(Opened(net, "tcp"), Min(FreeFds(net)))
    /\ telnet' = [telnet EXCEPT !.clients = @ \cup {NextHandle(net)}]
    /\ UNCHANGED <<polled, ports, requests, async, pass, use>>
stopSocket(h) ==
    /\ pass.stage = "idle" /\ h \in telnet.clients
    /\ net' = closeSocket(net, h)
    /\ telnet' = [telnet EXCEPT !.clients = @ \ {h}]
    /\ UNCHANGED <<polled, ports, requests, async, pass, use>>

(* The socket calls an application uses itself. *)

Own(h) == pass.stage = "idle" /\ h \in telnet.own /\ UNCHANGED <<polled, ports, requests, async, pass, use>>
openSocket ==
    /\ pass.stage = "idle" /\ CanReserve(net)
    /\ net' = reserve(net, NoFd)
    /\ telnet' = [telnet EXCEPT !.own = @ \cup {NextHandle(net)}]
    /\ UNCHANGED <<polled, ports, requests, async, pass, use>>
\* A socket that is not connected has no descriptor before this; one that
\* could not be made leaves the handle as it is.
connect(h) ==
    /\ Own(h) /\ UNCHANGED telnet
    /\ \E made \in Makes(net) : net' = Connecting(activate(net, h, "tcp", made, FALSE), h, "address")
bindAddress(h) ==
    /\ Own(h) /\ UNCHANGED telnet
    /\ \E made \in Makes(net), kind \in {"udp", "listen"} : net' = activate(net, h, kind, made, FALSE)
accept(h) ==
    /\ Own(h) /\ resolve(net, h) # NoFd /\ net.os[resolve(net, h)].kind = "listen"
    /\ FreeFds(net) # {} /\ CanReserve(net)
    /\ net' = reserve(Opened(net, "tcp"), Min(FreeFds(net)))
    /\ telnet' = [telnet EXCEPT !.own = @ \cup {NextHandle(net)}]
CloseSocket(h) ==
    /\ Own(h)
    /\ net' = closeSocket(net, h)
    /\ telnet' = [telnet EXCEPT !.own = @ \ {h}]

WorkerNext == \E w \in DOMAIN async.workers : workerStarts(w) \/ workerTakes(w) \/ workerAnswers(w)
AppNext ==
    \/ openConnectTo
    \/ \E h \in 1 .. MaxHandles : CloseConnectTo(h)
    \/ "ports" \in use /\ (openPort \/ closePort)
    \/ "names" \in use /\ (init \/ shutdown \/ \E name \in Hosts : openConnectToName(name))
    \/ "telnet" \in use /\ (startListen \/ stopListen \/ checkAccept \/ \E h \in telnet.clients : stopSocket(h))
    \/ "own" \in use /\ (openSocket \/ \E h \in telnet.own : connect(h) \/ bindAddress(h) \/ accept(h) \/ CloseSocket(h))
ProcessNext ==
    \/ beginProcess \/ receivePacket \/ nothingReceived \/ eraseRemoved \/ endProcess
    \/ pollPending \/ pollConnected \/ pollLookup \/ pollListening \/ callbackReturns
NetNext == WorkerNext \/ AppNext \/ ProcessNext
NetSpec == NetInit /\ [][NetNext]_netVars
-----------------------------------------------------------------------------
Values == {net.slots[h].fd : h \in DOMAIN net.slots} \ {NoFd}
Known == {polled[i].h : i \in DOMAIN polled} \cup {ports.udp, ports.udp6, telnet.listener} \cup telnet.clients \cup telnet.own

\* Whichever step of opening, accepting, binding or connecting fails, and
\* whatever callbacks do: an open descriptor belongs to exactly one handle,
\* and a handle that is in use is one that the polled list, a port or the
\* telnet adapter still knows, so that it can be closed.
DescriptorsOwned ==
    /\ \A f \in Fds : net.os[f] # Closed <=> \E h \in DOMAIN net.slots : net.slots[h].fd = f
    /\ \A g, h \in DOMAIN net.slots : net.slots[g].fd = net.slots[h].fd /\ net.slots[g].fd # NoFd => g = h
    /\ \A h \in DOMAIN net.slots : net.slots[h].used => h \in Known

\* A pass of process() looks at every polled socket, although its callbacks
\* add sockets to the list and remove others from it, behind the index and
\* before it.
PassVisitsAll ==
    pass.stage = "tcp" => \A j \in 1 .. pass.i - 1 : j \in DOMAIN polled /\ (polled[j] # Null => polled[j].seen)

LeadsWhereAsked(e) ==
    resolve(net, e.h) # NoFd => net.os[resolve(net, e.h)].to \in {e.asked, Nowhere}
Connects == {i \in DOMAIN polled : polled[i] # Null /\ polled[i].asked # Nowhere}

\* A connection to an address, or to a name that can be resolved and whose
\* lookup was queued, leads where the application asked it to lead, although
\* other sockets get the handles and descriptors of those that were closed
\* during their lookups.
ConnectsWhereAsked ==
    \A i \in Connects : polled[i].own /\ polled[i].asked \notin Unknown => LeadsWhereAsked(polled[i])

\* A lookup answers for the socket that asked: "check on the status of a dns
\* lookup for a socket" (platformNetAsync.h:51).  Not so for a handle that was
\* closed during its lookup and is used again; no run checks this.
LookupsAreOwn ==
    \A i \in Connects : polled[i].asked \notin Unknown => LeadsWhereAsked(polled[i])

\* A name that cannot be resolved is reported and not connected to: "if
\* out_h_length is -1, then name could not be resolved" (platformNetAsync.h:54).
\* Not so: it is connected to as an address of zeros; no run checks this.
UnresolvedNotConnected == \A f \in Fds : net.os[f].to # NoAddress

\* Nothing leaks, nothing is forgotten and nothing leads elsewhere while
\* callbacks open and close sockets from inside a pass.
SocketsConsistent == DescriptorsOwned /\ PassVisitsAll /\ ConnectsWhereAsked

-----------------------------------------------------------------------------
(***************************************************************************)
(* Addresses and their texts (torqueSim/platform/platformNetwork.cc).  A   *)
(* text is kept in its parts: the scheme before it, whether the host is in *)
(* brackets, the host and the port behind it.  A host is <<h>> with h of   *)
(* the class that says how inet_pton and the colon count take it, or       *)
(* <<h, n>> for an ipv6 host that a port was run into.                     *)
(***************************************************************************)

CONSTANTS V4Hosts, V6Hosts,
          ScopedHosts,   \* ipv6 hosts with %interface
          NameHosts,     \* names that getaddrinfo knows
          Ports

VARIABLES text, address

addressVars == <<text, address>>

ASSUME AddressAssumption == /\ Ports \subseteq 0 .. 65535
                            /\ V4Hosts \cap V6Hosts = {}

defaultPort == 28000
AllOnes == <<"255.255.255.255">>
AnyHost == <<"0.0.0.0">>
Any6 == <<"::">>
Schemes == {"", "ip", "ip6", "ipx"}
NoPort == 0 - 1
AddressText(scheme, bracket, host, port) == [scheme |-> scheme, bracket |-> bracket, host |-> host, port |-> port]
Address(type, num, port) == [type |-> type, num |-> num, port |-> port]
Parsed(error, a) == [error |-> error, a |-> a]
Zero == Address("IPAddress", AnyHost, 0)          \* memset to 0
Wrong == Parsed("WrongProtocolType", Zero)

\* Two or more colons make an ipv6 address, and then a port without
\* brackets is a part of the host.
Colons(t) == t.host[1] \in V6Hosts \cup ScopedHosts
Swallows(t) == ~t.bracket /\ Colons(t) /\ t.port # NoPort
extractAddressParts(t) ==
    LET v6 == t.bracket \/ Colons(t)
    IN [ok |-> t.scheme # "ipx",
        host |-> IF Swallows(t) THEN Append(t.host, t.port) ELSE t.host,
        port |-> IF t.port = NoPort \/ Swallows(t) THEN 0 ELSE t.port,
        type |-> CASE t.scheme = "ip" -> "IPAddress" [] t.scheme = "ip6" -> "IPV6Address"
                   [] OTHER -> IF v6 THEN "IPV6Address" ELSE "Invalid"]

PortOf(p) == IF p.port # 0 THEN p.port ELSE defaultPort
\* The address of a host, if its class is the one that is wanted.
Numbered(p, wanted, type, num) ==
    IF wanted \in {"Invalid", type} THEN Parsed("NoError", Address(type, num, PortOf(p))) ELSE Wrong
Particular(p, wanted, family, type) ==
    IF wanted \in {"Invalid", family} THEN Parsed("NoError", Address(type, <<>>, PortOf(p))) ELSE Wrong
\* getaddrinfo: an address of the wanted family for the names it knows and
\* for scoped hosts; for others the address stays zero, without an error.
Lookup(p, wanted) ==
    IF p.host[1] \in NameHosts /\ wanted # "IPV6Address"
    THEN Parsed("NoError", Address("IPAddress", <<CHOOSE h \in V4Hosts : <<h>> \notin {AllOnes, AnyHost}>>, PortOf(p)))
    ELSE IF p.host[1] \in NameHosts \cup ScopedHosts /\ wanted # "IPAddress"
    THEN Parsed("NoError", Address("IPV6Address", <<CHOOSE h \in V6Hosts : TRUE>>, PortOf(p)))
    ELSE Parsed("NoError", Zero)
stringToAddress(t, hostLookup, required) ==
    LET p == extractAddressParts(t)
        wanted == IF p.type = "Invalid" THEN required ELSE p.type
    IN IF ~p.ok \/ (required # "Invalid" /\ p.type \notin {"Invalid", required}) THEN Wrong
       ELSE IF p.host = <<"broadcast">> THEN Particular(p, wanted, "IPAddress", "IPBroadcastAddress")
       ELSE IF p.host = <<"multicast">> THEN Particular(p, wanted, "IPV6Address", "IPV6MulticastAddress")
       ELSE IF p.host[1] \in V4Hosts THEN Numbered(p, wanted, "IPAddress", p.host)
       ELSE IF p.host[1] \in V6Hosts THEN Numbered(p, wanted, "IPV6Address", p.host)
       ELSE IF hostLookup \/ p.host[1] \in ScopedHosts THEN Lookup(p, wanted) ELSE Parsed("NeedHostLookup", Zero)

\* Mutant: no brackets around an ipv6 address with a port.
WrittenPlain(scheme, host, port, brackets) ==
    AddressText(scheme, FALSE, host, IF port = 0 THEN NoPort ELSE port)
Written(scheme, host, port, brackets) ==
    AddressText(scheme, brackets /\ port # 0, host, IF port = 0 THEN NoPort ELSE port)
addressToString(a) ==
    CASE a.type = "IPBroadcastAddress" \/ (a.type = "IPAddress" /\ a.num = AllOnes) ->
           Written("ip", <<"broadcast">>, a.port, FALSE)
      [] a.type = "IPAddress" /\ a.num # AllOnes -> Written("ip", a.num, a.port, FALSE)
      [] a.type = "IPV6Address" -> Written("ip6", a.num, a.port, TRUE)
      [] a.type = "IPV6MulticastAddress" -> Written("ip6", <<"multicast">>, a.port, FALSE)

isSameAddress(a, b) ==
    a.type = b.type /\ (a.type \in {"IPAddress", "IPV6Address"} => a.num = b.num)
isSameAddressAndPort(a, b) ==
    isSameAddress(a, b) /\ (a.type \in {"IPAddress", "IPV6Address"} => a.port = b.port)
isEqual(a, b) == isSameAddress(a, b) /\ a.port = b.port

\* getListenAddress with the text of a preference, "" if it is not set.
getListenAddress(type, pref, force) ==
    IF type = "Invalid" THEN Wrong
    ELSE IF type = "IPBroadcastAddress" \/ ((force \/ pref.host = <<"">>) /\ type # "IPV6MulticastAddress")
    THEN Parsed("NoError", Address(type, CASE type = "IPBroadcastAddress" -> AllOnes [] type = "IPAddress" -> AnyHost [] OTHER -> Any6, 0))
    ELSE stringToAddress(pref, FALSE, "Invalid")
\* A preference that is a name is not waited for.
getIdealListenAddress(type, pref) ==
    IF getListenAddress(type, pref, FALSE).error = "NeedHostLookup" THEN getListenAddress(type, pref, TRUE)
    ELSE getListenAddress(type, pref, FALSE)

TextHosts == {<<h>> : h \in V4Hosts \cup V6Hosts \cup ScopedHosts \cup NameHosts \cup {"", "broadcast", "multicast", "nobody"}}
Texts == [scheme : Schemes, bracket : BOOLEAN, host : TextHosts, port : Ports \cup {NoPort}]
Types == {"Invalid", "IPAddress", "IPV6Address"}
AddressInit == text \in Texts /\ address = Parsed("none", Zero)
\* Reading the text, and writing what was read.
StringToAddress ==
    /\ address.error = "none"
    /\ \E lookup \in BOOLEAN, type \in Types : address' = stringToAddress(text, lookup, type)
    /\ UNCHANGED text
ListenAddress ==
    /\ address.error = "none"
    /\ \E type \in Types \ {"Invalid"} : address' = getIdealListenAddress(type, text)
    /\ UNCHANGED text
AddressToString ==
    /\ address.error = "NoError" /\ text # addressToString(address.a)
    /\ text' = addressToString(address.a)
    /\ UNCHANGED address

\* What is written for an address is read as that address, whatever the text
\* was that it came from: neither the port nor the family is lost.  (Port 0
\* is read as the default port, and 255.255.255.255 as broadcast.)
AddressesReadBack ==
    LET a == address.a  again == stringToAddress(addressToString(a), FALSE, "Invalid")
    IN address.error = "NoError" /\ a.num # AllOnes =>
         /\ again.error = "NoError"
         /\ IF a.port = 0 THEN isSameAddress(again.a, a) /\ again.a.port = defaultPort
            ELSE isSameAddressAndPort(again.a, a) /\ isEqual(again.a, a)
-----------------------------------------------------------------------------
(***************************************************************************)
(* The telnet console (engine/console/telnetConsole.cc).  A pass of        *)
(* process() accepts a connection, takes the next bytes of each client in  *)
(* turn and drops the clients whose socket is gone.  The telnet interface  *)
(* is the embedder's: it hands out sockets, and receiving from one may     *)
(* fail in any pass.                                                       *)
(***************************************************************************)
CONSTANTS Sockets,          \* sockets the interface can hand out
          MaxLineLength,    \* room for a line and its terminator
          Chars,            \* characters that may be typed
          MaxRecv,          \* bound: bytes taken at once
          telnetPassword, listenPassword

ASSUME TelnetAssumption ==
    /\ 0 \notin Sockets /\ MaxLineLength \in Nat \ {0} /\ MaxRecv \in Nat
    /\ telnetPassword \in Seq(Chars) /\ listenPassword \in Seq(Chars)

VARIABLES clients,     \* mClientList, the newest first
          service,     \* mAcceptPort is open; the interface's open sockets;
                       \* an operation on freed memory happened
          turn         \* the client a pass is at, 0 between passes

telnetVars == <<clients, service, turn>>

Keys == Chars \cup {"newline", "return", "backspace"}
\* The states of a client, in the order of the enumeration.
States == <<"PasswordTryOne", "PasswordTryTwo", "PasswordTryThree", "DisconnectThisDude", "FullAccessConnected", "ReadOnlyConnected">>
Following(s) == States[(CHOOSE i \in DOMAIN States : States[i] = s) + 1]

TelnetInit ==
    /\ clients = <<>>
    /\ service = [accepts |-> FALSE, open |-> {}, undefined |-> FALSE]
    /\ turn = 0

Between == turn = 0 /\ ~service.undefined
\* StartListen stops the listener it has before it opens the new one.
setTelnetParameters ==
    /\ Between
    /\ \E ok \in BOOLEAN : service' = [service EXCEPT !.accepts = ok]
    /\ UNCHANGED <<clients, turn>>

TelnetClient(s) == [socket |-> s, line |-> <<>>, state |-> "PasswordTryOne"]
\* Freeing the clients goes on from the list's head, which is freed first,
\* and the list keeps what was freed: with a client in it, that is undefined.
disconnect ==
    [accepts |-> service.accepts, open |-> service.open \ {clients[i].socket : i \in DOMAIN clients},
     undefined |-> clients # <<>>]

beginPass ==
    /\ Between
    /\ \/ /\ service.accepts
          /\ \/ \E s \in Sockets \ service.open :
                  /\ clients' = <<TelnetClient(s)>> \o clients
                  /\ service' = [service EXCEPT !.open = @ \cup {s}]
             \/ UNCHANGED <<clients, service>>
       \/ /\ ~service.accepts
          /\ service' = disconnect
          /\ UNCHANGED clients
    /\ turn' = 1

\* A line that is complete is evaluated or passed over, or it is a password;
\* evaluation is the embedder's queue and changes nothing here.  What follows
\* the last wrong password in the same bytes is still taken.
Line(c) ==
    LET next == Following(c.state)
        known == c.line \in {telnetPassword, listenPassword}
    IN IF c.state \in {"FullAccessConnected", "ReadOnlyConnected"} THEN [c EXCEPT !.line = <<>>]
       ELSE [socket |-> IF ~known /\ next = "DisconnectThisDude" THEN 0 ELSE c.socket,
             line |-> <<>>,
             state |-> CASE c.line = telnetPassword -> "FullAccessConnected"
                         [] c.line # telnetPassword /\ c.line = listenPassword -> "ReadOnlyConnected"
                         [] ~known -> next]
Typed(c, k) == IF Len(c.line) < MaxLineLength - 1 THEN [c EXCEPT !.line = Append(@, k)] ELSE c
\* One byte of what was received.
TakeByte(c, k) ==
    CASE k = "return" -> c
      [] k = "newline" -> Line(c)
      [] k = "backspace" -> [c EXCEPT !.line = IF @ = <<>> THEN @ ELSE Front(@)]
      [] OTHER -> Typed(c, k)
TakeBytes(c, bytes) ==
    LET after[n \in 0 .. Len(bytes)] == IF n = 0 THEN c ELSE TakeByte(after[n - 1], bytes[n])
    IN after[Len(bytes)]
\* Mutant: the socket of a client that cannot be read from is not stopped.
StoppedKeeps(s) == UNCHANGED service
StopSocket(s) == service' = [service EXCEPT !.open = @ \ {s}]
takeBytes ==
    /\ turn \in DOMAIN clients /\ ~service.undefined
    /\ \E n \in 0 .. MaxRecv : \E bytes \in [1 .. n -> Keys] :
         LET c == clients[turn]
             d == TakeBytes(c, bytes)
         IN /\ clients' = [clients EXCEPT ![turn] = d]
            /\ IF c.socket # d.socket THEN StopSocket(c.socket) ELSE UNCHANGED service
    /\ turn' = turn + 1
receiveFails ==
    /\ turn \in DOMAIN clients /\ ~service.undefined
    /\ StopSocket(clients[turn].socket)
    /\ clients' = [clients EXCEPT ![turn].socket = 0]
    /\ turn' = turn + 1
endPass ==
    /\ turn > Len(clients) /\ ~service.undefined
    /\ clients' = Chosen(clients, {clients[i] : i \in {j \in DOMAIN clients : clients[j].socket # 0}})
    /\ turn' = 0
    /\ UNCHANGED service
\* Vm::telnetDisconnect
Disconnect ==
    /\ Between
    /\ service' = disconnect
    /\ UNCHANGED <<clients, turn>>

TelnetNext == setTelnetParameters \/ beginPass \/ takeBytes \/ receiveFails \/ endPass \/ Disconnect
TelnetSpec == TelnetInit /\ [][TelnetNext]_telnetVars
-----------------------------------------------------------------------------
(* Properties *)

\* Whichever read fails and whoever is turned away in the middle of what was
\* received: between passes the interface's open sockets are those of the
\* listed clients, each of one client.
ConsoleSocketsOwned ==
    Between =>
      /\ service.open = {clients[i].socket : i \in DOMAIN clients}
      /\ \A i, j \in DOMAIN clients : clients[i].socket = clients[j].socket => i = j
=============================================================================
