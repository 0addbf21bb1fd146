--------------------------- MODULE PeerConnection ---------------------------
(***************************************************************************)
(* A connection to a remote node over its life: packages/wire/lib/Peer.ts  *)
(* and PingPongState.ts.  A Peer owns one NoiseSocket at a time; it is     *)
(* driven by the events of that socket, by three timers (reconnection,     *)
(* ping interval, pong timeout), by its consumer, who reads the messages   *)
(* it has pushed, and by the user's connect, attach and disconnect.        *)
(*                                                                         *)
(* A message is its kind: "badInit" is an init whose chains or features    *)
(* do not fit, "badPong" a pong of the wrong length, "bigPing" a ping that *)
(* asks for no pong, "junk" bytes that do not deserialize, "unknown" a     *)
(* message of a type the factory does not know, "other" anything the peer  *)
(* merely passes on.                                                       *)
(***************************************************************************)
EXTENDS Naturals, Sequences

CONSTANTS
    Roles,               \* the values of isInitiator to consider
    Sends,               \* the kinds of message the remote may send
    HighWaterMark,       \* highWaterMark of the Peer's stream: 2048
    PingFloodThreshold,  \* PING_FLOOD_THRESHOLD: 10
    Budget,              \* bound: messages the remote sends on a connection
    MaxBuffered          \* bound: messages pushed or waiting in the socket

Kinds == {"init", "badInit", "ping", "bigPing", "pong", "badPong", "other", "unknown", "junk"}

ASSUME PeerAssumption ==
    /\ Roles \subseteq BOOLEAN /\ Sends \subseteq Kinds
    /\ HighWaterMark \in Nat \ {0} /\ PingFloodThreshold \in Nat
    /\ Budget \in Nat /\ MaxBuffered \in Nat

VARIABLES
    isInitiator, state,  \* fields of Peer
    backoff,             \* _reconnectHandle is pending
    out,                 \* number of messages in the Peer's own buffer
    sock,                \* the NoiseSocket: none, connecting, up, closed
    ended,               \* end() was called on it
    inbox,               \* messages in its read buffer
    budget,              \* messages the remote may still send on it
    notify,              \* a call of _onSocketReadable is scheduled
    reading,             \* _read was called and nothing pushed since
    loop,                \* the while loop of _onSocketReadable is running
    live, held,          \* running ping intervals; the handle is one of them
    pongTimer,           \* _pongTimeoutHandle is pending
    sentPing,            \* _sentPing is set
    heard,               \* a message arrived since the last tick, or start
    pings,               \* _pingsReceieved, up to one over the threshold
    wanted,              \* history: the user wants the connection
    pending,             \* history: disconnect() met a reconnection not yet begun
    revived,             \* history: a handshake completed after disconnect()
    closed,              \* history: 'close' was emitted
    readyFired           \* history: 'ready' was emitted for this socket

sockVars == <<sock, ended, inbox, budget>>
pingVars == <<live, held, pongTimer, sentPing, heard, pings>>
history == <<wanted, pending, revived, closed, readyFired>>
vars == <<isInitiator, state, backoff, out, sockVars, notify, reading, loop, pingVars,
               history>>

Init ==
    /\ isInitiator \in Roles
    /\ state = "Disconnected" /\ backoff = FALSE /\ out = 0
    /\ sock = "none" /\ ended = FALSE /\ inbox = <<>> /\ budget = 0
    /\ notify = FALSE /\ reading = FALSE /\ loop = FALSE
    /\ live = 0 /\ held = FALSE /\ pongTimer = FALSE
    /\ sentPing = FALSE /\ heard = FALSE /\ pings = 0
    /\ wanted = FALSE /\ pending = FALSE /\ revived = FALSE
    /\ closed = FALSE /\ readyFired = FALSE

-----------------------------------------------------------------------------
(* connect(), attach(): a new socket takes the place of the old one. *)
NewSocket ==
    /\ sock' = "connecting" /\ ended' = FALSE /\ inbox' = <<>> /\ budget' = Budget
    /\ readyFired' = FALSE

(* The user connects, or a server attaches an accepted socket; after       *)
(* 'close' the user may connect again.                                     *)
UserConnects ==
    /\ ~loop
    /\ \/ sock = "none"
       \/ isInitiator /\ sock = "closed" /\ closed
    /\ NewSocket
    /\ wanted' = TRUE /\ pending' = FALSE /\ revived' = FALSE
    /\ closed' = FALSE
    /\ UNCHANGED <<isInitiator, state, backoff, out, notify, reading, loop, pingVars>>

ReconnectTimer ==
    /\ ~loop /\ backoff
    /\ backoff' = FALSE
    /\ NewSocket
    /\ pending' = FALSE
    /\ UNCHANGED <<isInitiator, state, out, notify, reading, loop, pingVars,
                   wanted, revived, closed>>

(* _onSocketReady: the noise handshake is complete, the init is sent.      *)
(* The state is overwritten, Disconnecting too.                            *)
SocketReady ==
    /\ ~loop /\ sock = "connecting"
    /\ sock' = "up"
    /\ state' = "AwaitingPeerInit"
    /\ revived' = (revived \/ ~wanted)
    /\ UNCHANGED <<isInitiator, backoff, out, ended, inbox, budget, notify, reading, loop,
                   pingVars, wanted, pending, closed, readyFired>>

(* Mutant: the timers are not cleared.                                     *)
PingsGoOn == UNCHANGED pingVars

(* PingPongState.onDisconnecting *)
StopPings ==
    /\ pongTimer' = FALSE
    /\ live' = IF held THEN live - 1 ELSE live
    /\ held' = FALSE
    /\ UNCHANGED <<sentPing, heard, pings>>

(* Mutant: the state outlives the socket.                                  *)
StateKept == IF state = "Disconnecting" THEN "Disconnected" ELSE state

StateAfterClose == "Disconnected"

Reconnects == state # "Disconnecting" /\ isInitiator

(* _onSocketClose: an intended disconnection is reported, after any other  *)
(* one the initiator schedules a reconnection.                             *)
SocketCloses ==
    /\ ~loop /\ sock \in {"connecting", "up"}
    /\ sock' = "closed"
    /\ StopPings
    /\ state' = StateAfterClose
    /\ closed' = (state = "Disconnecting" \/ closed)
    /\ backoff' = Reconnects
    /\ UNCHANGED <<isInitiator, out, ended, inbox, budget, notify, reading, loop,
                   wanted, pending, revived, readyFired>>

(* disconnect() changes the state and ends the socket; a scheduled         *)
(* reconnection stays scheduled.                                           *)
Disconnect == state' = "Disconnecting" /\ ended' = TRUE

(* The user may call it whenever there is a socket: while it connects, is  *)
(* up, or is closed, with a reconnection scheduled or without.             *)
DisconnectAsked ==
    /\ ~loop /\ sock # "none"
    /\ wanted' = FALSE /\ pending' = backoff /\ revived' = FALSE
    /\ UNCHANGED <<isInitiator, backoff, out, sock, inbox, budget, notify, reading, loop,
                   pingVars, closed, readyFired>>

(* Mutant: only the socket is ended, as reconnect() does.                  *)
UserEndsSocket == DisconnectAsked /\ ended' = TRUE /\ UNCHANGED state

UserDisconnects == DisconnectAsked /\ Disconnect

(* reconnect(), called by the user: the socket is ended.                   *)
UserReconnects ==
    /\ ~loop /\ sock = "up" /\ ~ended
    /\ ended' = TRUE
    /\ UNCHANGED <<isInitiator, state, backoff, out, sock, inbox, budget, notify, reading,
                   loop, pingVars, history>>

-----------------------------------------------------------------------------
(* Messages: the remote's arrive until the socket closes, even if it has   *)
(* been ended at this side.                                                *)
RemoteSends(m) ==
    /\ ~loop /\ sock = "up"
    /\ budget > 0 /\ out + Len(inbox) < MaxBuffered
    /\ inbox' = Append(inbox, m)
    /\ budget' = budget - 1
    /\ notify' = TRUE
    /\ UNCHANGED <<isInitiator, state, backoff, out, sock, ended, reading, loop, pingVars,
                   history>>

Readable ==
    /\ ~loop /\ notify
    /\ notify' = FALSE /\ loop' = TRUE
    /\ UNCHANGED <<isInitiator, state, backoff, out, sockVars, reading, pingVars, history>>

ReadNothing ==
    /\ loop /\ inbox = <<>>
    /\ loop' = FALSE
    /\ UNCHANGED <<isInitiator, state, backoff, out, sockVars, notify, reading, pingVars,
                   history>>

(* The next message is of kind k; the loop takes it off the socket. *)
Reads(k) ==
    /\ loop /\ inbox # <<>> /\ Head(inbox) = k
    /\ inbox' = Tail(inbox)
    /\ UNCHANGED <<isInitiator, backoff, sock, budget, notify>>

(* The catch of _onSocketReadable: the socket is ended, the loop left. *)
Catch == ended' = TRUE /\ loop' = FALSE

(* PingPongState.start *)
StartPings ==
    /\ live' = live + 1 /\ held' = TRUE
    /\ heard' = FALSE
    /\ UNCHANGED <<pongTimer, sentPing, pings>>

(* _processPeerInitMessage: a good init makes the peer Ready; *)
ReadsInit ==
    /\ state = "AwaitingPeerInit"
    /\ Reads("init")
    /\ StartPings
    /\ state' = "Ready" /\ readyFired' = TRUE
    /\ UNCHANGED <<loop, ended, out, reading, wanted, pending, revived, closed>>

(* one that does not fit disconnects it, and the loop goes on;             *)
ReadsBadInit ==
    /\ state = "AwaitingPeerInit"
    /\ Reads("badInit")
    /\ Disconnect
    /\ UNCHANGED <<loop, out, reading, pingVars, history>>

(* anything else throws.                                                   *)
ReadsNoInit ==
    /\ state = "AwaitingPeerInit"
    /\ \E k \in Kinds \ {"init", "badInit"} : Reads(k)
    /\ Catch
    /\ UNCHANGED <<state, out, reading, pingVars, history>>

(* _processMessage and push: the loop goes on until the buffer is full.    *)
Push ==
    /\ out' = out + 1 /\ reading' = FALSE
    /\ loop' = (out + 1 < HighWaterMark)

Passes(k) == state # "AwaitingPeerInit" /\ Reads(k)

ReadsOther ==
    /\ \E k \in {"init", "badInit", "other"} : Passes(k)
    /\ heard' = TRUE
    /\ Push
    /\ UNCHANGED <<state, ended, live, held, pongTimer, sentPing, pings, history>>

(* A message of an unknown type is undefined: it is pushed as it is, and   *)
(* PingPongState does not hear of it.                                      *)
ReadsUnknown ==
    /\ Passes("unknown")
    /\ Push
    /\ UNCHANGED <<state, ended, pingVars, history>>

ReadsJunk ==
    /\ Passes("junk")
    /\ Catch
    /\ UNCHANGED <<state, out, reading, pingVars, history>>

ReadsPong ==
    /\ Passes("pong")
    /\ heard' = TRUE /\ pongTimer' = FALSE
    /\ Push
    /\ UNCHANGED <<state, ended, live, held, sentPing, pings, history>>

ReadsBadPong ==
    /\ Passes("badPong")
    /\ heard' = TRUE /\ pongTimer' = FALSE
    /\ IF sentPing THEN Disconnect ELSE UNCHANGED <<state, ended>>
    /\ Push
    /\ UNCHANGED <<live, held, sentPing, pings, history>>

Flood == pings >= PingFloodThreshold

CountPing ==
    /\ heard' = TRUE
    /\ pings' = IF Flood THEN PingFloodThreshold + 1 ELSE pings + 1
    /\ UNCHANGED <<live, held, pongTimer, sentPing, history>>

(* A ping is answered by a pong, which throws unless the peer is Ready;    *)
(* one ping too many disconnects first.                                    *)
ReadsPing ==
    /\ Passes("ping")
    /\ CountPing
    /\ state = "Ready" /\ ~Flood
    /\ Push
    /\ UNCHANGED <<state, ended>>

ReadsPingThrows ==
    /\ Passes("ping")
    /\ CountPing
    /\ state # "Ready" \/ Flood
    /\ Catch
    /\ state' = IF Flood THEN "Disconnecting" ELSE state
    /\ UNCHANGED <<out, reading>>

(* A ping that asks for 65532 bytes or more is counted and not answered.   *)
ReadsBigPing ==
    /\ Passes("bigPing")
    /\ CountPing
    /\ IF Flood THEN Disconnect ELSE UNCHANGED <<state, ended>>
    /\ Push

ReadStep ==
    \/ ReadNothing \/ ReadsInit \/ ReadsBadInit \/ ReadsNoInit \/ ReadsOther
    \/ ReadsUnknown \/ ReadsJunk \/ ReadsPong \/ ReadsBadPong
    \/ ReadsPing \/ ReadsPingThrows \/ ReadsBigPing

(* Mutant: reading does not ask for more.                                  *)
ConsumerReadsOnly ==
    /\ ~loop /\ out > 0
    /\ out' = out - 1
    /\ UNCHANGED <<isInitiator, state, backoff, sockVars, notify, reading, loop, pingVars,
                   history>>

(* The consumer reads a message; below the high-water mark the stream      *)
(* calls _read, which schedules _onSocketReadable, but not again before    *)
(* something was pushed.                                                   *)
ConsumerReads ==
    /\ ~loop /\ out > 0
    /\ out' = out - 1
    /\ LET calls == ~reading /\ out - 1 < HighWaterMark
       IN  notify' = (notify \/ calls) /\ reading' = (reading \/ calls)
    /\ UNCHANGED <<isInitiator, state, backoff, sockVars, loop, pingVars, history>>

(* The stream calls _read of its own accord too, to fill its buffer.       *)
StreamReads ==
    /\ ~loop /\ ~reading /\ out < HighWaterMark
    /\ notify' = TRUE /\ reading' = TRUE
    /\ UNCHANGED <<isInitiator, state, backoff, out, sockVars, loop, pingVars, history>>

-----------------------------------------------------------------------------
(* _onSendPingInterval.  The pong timeout (15 s), which only a tick arms,  *)
(* is over before the next tick (60 s).                                    *)
Tick ==
    /\ ~loop /\ live > 0 /\ ~pongTimer
    /\ pings' = 0 /\ heard' = FALSE
    /\ UNCHANGED <<isInitiator, state, backoff, out, sockVars, notify, reading, loop, live,
                   held,
                   history>>

TickQuiet ==
    /\ Tick /\ heard
    /\ UNCHANGED <<pongTimer, sentPing>>

(* _sendPing arms the timeout, then sends.  sendMessage asserts Ready:     *)
(* between disconnect() and the close of the socket the callback throws.   *)
TickPings ==
    /\ Tick /\ ~heard
    /\ pongTimer' = TRUE
    /\ sentPing' = (sentPing \/ state = "Ready")

(* Mutant: nothing happens when no pong arrives.                           *)
PongIgnored ==
    /\ ~loop /\ pongTimer
    /\ pongTimer' = FALSE
    /\ UNCHANGED <<isInitiator, state, backoff, out, sockVars, notify, reading, loop,
                   live, held, sentPing, heard, pings, history>>

(* _pongTimedOut: reconnect() ends the socket.                             *)
PongTimedOut ==
    /\ ~loop /\ pongTimer
    /\ pongTimer' = FALSE
    /\ ended' = TRUE
    /\ UNCHANGED <<isInitiator, state, backoff, out, sock, inbox, budget, notify, reading,
                   loop,
                   live, held, sentPing, heard, pings, history>>

Next ==
    \/ UserConnects \/ UserDisconnects \/ UserReconnects
    \/ SocketReady \/ SocketCloses \/ ReconnectTimer
    \/ \E m \in Sends : RemoteSends(m)
    \/ Readable \/ ReadStep \/ ConsumerReads \/ StreamReads
    \/ TickQuiet \/ TickPings \/ PongTimedOut

Spec == Init /\ [][Next]_vars

(* The event loop runs what is scheduled, the consumer reads, and a socket *)
(* that has been ended closes, when the remote ends it or TCP gives up.    *)
FairSpec ==
    /\ Spec
    /\ WF_vars(Readable) /\ WF_vars(ReadStep) /\ WF_vars(ConsumerReads)
    /\ WF_vars(TickQuiet \/ TickPings) /\ WF_vars(PongTimedOut) /\ WF_vars(ReconnectTimer)
    /\ WF_vars(ended /\ SocketCloses)

-----------------------------------------------------------------------------
TypeOK ==
    /\ isInitiator \in BOOLEAN
    /\ state \in {"Disconnected", "AwaitingPeerInit", "Ready", "Disconnecting"}
    /\ backoff \in BOOLEAN /\ out \in Nat
    /\ sock \in {"none", "connecting", "up", "closed"}
    /\ ended \in BOOLEAN /\ inbox \in Seq(Kinds) /\ budget \in 0..Budget
    /\ notify \in BOOLEAN /\ reading \in BOOLEAN /\ loop \in BOOLEAN
    /\ live \in Nat /\ held \in BOOLEAN /\ pongTimer \in BOOLEAN
    /\ sentPing \in BOOLEAN /\ heard \in BOOLEAN /\ pings \in 0..(PingFloodThreshold + 1)
    /\ wanted \in BOOLEAN /\ pending \in BOOLEAN /\ revived \in BOOLEAN
    /\ closed \in BOOLEAN /\ readyFired \in BOOLEAN

(* However often the peer reconnects, one ping interval runs at most, and  *)
(* it is the one that the handle can clear.                                *)
OnePinger == live = IF held THEN 1 ELSE 0

(* No ping timer survives its connection.                                  *)
QuietWhenDown == sock # "up" => live = 0 /\ ~pongTimer

(* The peer is Ready only on a socket that is up and whose own init        *)
(* message has arrived, never on the strength of an earlier connection.    *)
ReadyIsCurrent ==
    /\ state = "Ready" => sock = "up" /\ readyFired
    /\ state = "AwaitingPeerInit" => sock = "up" /\ ~readyFired

(* A peer whose socket has closed either has a reconnection scheduled or   *)
(* has told its users that it is closed for good.                          *)
CloseOrReconnect == sock = "closed" => backoff \/ closed

(* After disconnect(), in whatever phase it is called, no connection is    *)
(* made until the user asks for one.  Two steps undo it, and no other:     *)
(* the reconnection that was scheduled when it was called is attempted,    *)
(* once, as its timer is not cleared; and a handshake that completes       *)
(* afterwards overwrites the state.                                        *)
DisconnectIsFinal ==
    [][ sock' = "connecting" /\ sock # "connecting" => wanted' \/ pending \/ revived ]_vars

(* A remote that falls silent is noticed: a Ready peer keeps hearing       *)
(* messages, or ends the socket.                                           *)
SilenceNoticed == []<>(heard \/ ended \/ state # "Ready")

(* Back-pressure strands nothing: messages that wait in the socket are     *)
(* read, unless it has been ended.                                         *)
NothingStuck == (inbox # <<>>) ~> (inbox = <<>> \/ ended)
=============================================================================
