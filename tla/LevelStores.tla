---------------------------- MODULE LevelStores ----------------------------
(***************************************************************************)
(* LeveldbDlcStore and LeveldbGossipStore: calls that write a record and   *)
(* the keys it is found by, one awaited put or del after the other, so     *)
(* that calls interleave and a crash leaves what was put so far.           *)
(*                                                                         *)
(* A call is a sequence of steps fixed when it begins; what a step reads   *)
(* is kept for the next.  Records are their keys: <<"accept", c>>.  Calls  *)
(* that put or del one key and nothing else are left out (signs, cancels,  *)
(* closes, the gossip store's nicknames), as are the iterations.           *)
(***************************************************************************)
EXTENDS Integers, Sequences, SequencesExt

CONSTANTS
  Contract,    \* contract id -> [temp, inputs, out, spk]: the id of its offer, the
               \* outpoints its accept spends, the one it is funded by, and its script
  Channel,     \* channel -> <<node, node, outpoint>>: its ends and the output that funds it
  Workload,    \* the sets of calls a program makes
  MaxCrashes

\* The output that funds a contract funds no other.
ASSUME ContractAssumption ==
  /\ \A c \in DOMAIN Contract : Contract[c].inputs \in Seq(ToSet(Contract[c].inputs))
  /\ \A c, d \in DOMAIN Contract : Contract[c].out = Contract[d].out => c = d

\* BatchDlcTxBuilder: the accepts of a batch spend the same inputs.
ASSUME WorkloadAssumption ==
  \A asked \in Workload : \A call \in asked :
    \/ call[1] \in {"saveDlcOffer", "deleteDlcOffer", "saveNodeAnnouncement", "deleteNodeAnnouncement"}
    \/ call[1] \in {"saveDlcAccept", "deleteDlcAccept", "saveDlcTransactions", "deleteDlcTransactions"}
       /\ call[2] \in DOMAIN Contract
    \/ call[1] \in {"saveChannelAnnouncement", "deleteChannelAnnouncement", "saveChannelUpdate"}
       /\ call[2] \in DOMAIN Channel
    \/ /\ call[1] = "saveDlcAccepts" /\ call[2] \in Seq(DOMAIN Contract) /\ call[2] # <<>>
       /\ \A k \in DOMAIN call[2] : Contract[call[2][k]].inputs = Contract[call[2][1]].inputs

VARIABLES
  db,       \* key -> value
  calls,    \* calls to be made, again after a crash
  running,  \* [call, todo, seen] of each task of the process
  crashes,
  gone,     \* history: records deleted and not put again
  torn,     \* history: records in a call that a crash cut, until they are put again
  astray    \* history: <<node, channel>> two calls were at, until the channel is put again

vars == <<db, calls, running, crashes, gone, torn, astray>>

Tasks == DOMAIN running
Idle == [call |-> <<>>, todo |-> <<>>, seen |-> {}]
Busy(w) == running[w].todo # <<>>

\* A call is <<operation, argument>> or <<operation, argument, which>>: an announcement
\* is saved "extended" with the outpoint it funds, or "plain".
Op(call) == call[1]
Of(call) == call[2]
Kind(call) == call[3]

Put(key, value) == [do |-> "put", key |-> key, value |-> value]
Do(do, key) == [do |-> do, key |-> key, value |-> key]

-----------------------------------------------------------------------------
(* The steps of each operation. *)

Offer(c) == <<"offer", Contract[c].temp>>
Outpoint(o) == <<"outpoint", o>>
Temp(c) == <<"temp", Contract[c].temp>>
Script(c) == <<"script", Contract[c].spk>>

\* A slip: the last input is left out.
SaveDlcAcceptSlip(c) ==
  <<Do("need", Offer(c)), Put(<<"accept", c>>, c)>>
    \o [i \in 1..Len(Contract[c].inputs) - 1 |-> Put(Outpoint(Contract[c].inputs[i]), c)] \o <<Put(Temp(c), c)>>

SaveDlcAccept(c) ==
  <<Do("need", Offer(c)), Put(<<"accept", c>>, c)>>
    \o [i \in DOMAIN Contract[c].inputs |-> Put(Outpoint(Contract[c].inputs[i]), c)] \o <<Put(Temp(c), c)>>

\* The accepts of a batch spend the same inputs.  The inner loop counts them
\* with the i that the outer loop counts accepts with: input j is taken from
\* accept j and filed under its contract, and there may be no accept j.
SaveDlcAccepts(batch) ==
  LET inputs == Contract[batch[1]].inputs
      overrun == Len(inputs) >= Len(batch)
      filed == IF overrun THEN Len(batch) ELSE Len(inputs)
      Save(c, j) == CASE j = 0 -> Put(<<"accept", c>>, c)
                      [] j \in 1..filed -> Put(Outpoint(inputs[j]), batch[j])
                      [] j = filed + 1 -> IF overrun THEN Do("throw", <<>>) ELSE Put(Temp(c), c)
      width == filed + 2
  IN  [k \in DOMAIN batch |-> Do("need", Offer(batch[k]))]
        \o [i \in 1..Len(batch) * width |-> Save(batch[(i - 1) \div width + 1], (i - 1) % width)]

SaveDlcTransactions(c) ==
  <<Put(<<"transactions", c>>, c), Put(Outpoint(Contract[c].out), c), Put(Script(c), c)>>

Links(n) == <<"links", n>>
Funding(ch) == <<"funding", Channel[ch][3]>>

\* _saveNodeChannel reads the list and then puts it.
SaveNodeChannels(ch) ==
  <<Do("read", Links(Channel[ch][1])), Do("link", Links(Channel[ch][1])),
    Do("read", Links(Channel[ch][2])), Do("link", Links(Channel[ch][2]))>>

\* A slip: the outpoint first.
SaveChannelAnnouncementSlip(ch, kind) ==
  (IF kind = "extended" THEN <<Put(Funding(ch), ch)>> ELSE <<>>) \o <<Put(<<"channel", ch>>, kind)>>
    \o SaveNodeChannels(ch)

SaveChannelAnnouncement(ch, kind) ==
  <<Put(<<"channel", ch>>, kind)>> \o (IF kind = "extended" THEN <<Put(Funding(ch), ch)>> ELSE <<>>)
    \o SaveNodeChannels(ch)

\* The key of the outpoint is left: it leads to a channel that is gone.
DeleteChannelAnnouncement(ch) ==
  <<Do("need", <<"channel", ch>>), Do("del", <<"update", ch, 0>>), Do("del", <<"update", ch, 1>>),
    Do("read", Links(Channel[ch][1])), Do("unlink", Links(Channel[ch][1])),
    Do("read", Links(Channel[ch][2])), Do("unlink", Links(Channel[ch][2])),
    Do("del", <<"channel", ch>>)>>

DeleteNodeAnnouncement(n) == <<Do("del", Links(n)), Do("del", <<"node", n>>)>>

StepsOf(call) ==
  CASE Op(call) = "saveDlcOffer" -> <<Put(<<"offer", Of(call)>>, Of(call))>>
    [] Op(call) = "deleteDlcOffer" -> <<Do("del", <<"offer", Of(call)>>)>>
    [] Op(call) = "saveDlcAccept" -> SaveDlcAccept(Of(call))
    [] Op(call) = "saveDlcAccepts" -> SaveDlcAccepts(Of(call))
    [] Op(call) = "deleteDlcAccept" -> <<Do("del", <<"accept", Of(call)>>)>>
    [] Op(call) = "saveDlcTransactions" -> SaveDlcTransactions(Of(call))
    [] Op(call) = "deleteDlcTransactions" -> <<Do("del", <<"transactions", Of(call)>>)>>
    [] Op(call) = "saveChannelAnnouncement" -> SaveChannelAnnouncement(Of(call), Kind(call))
    [] Op(call) = "deleteChannelAnnouncement" -> DeleteChannelAnnouncement(Of(call))
    [] Op(call) = "saveChannelUpdate" -> <<Put(<<"update", Of(call), 0>>, Of(call))>>
    [] Op(call) = "saveNodeAnnouncement" -> <<Put(<<"node", Of(call)>>, Of(call))>>
    [] Op(call) = "deleteNodeAnnouncement" -> DeleteNodeAnnouncement(Of(call))

\* The records a call writes or deletes.
Records(call) ==
  CASE Op(call) = "saveDlcAccepts" -> {<<"accept", c>> : c \in ToSet(Of(call))}
    [] Op(call) \in {"saveDlcAccept", "deleteDlcAccept"} -> {<<"accept", Of(call)>>}
    [] Op(call) \in {"saveDlcTransactions", "deleteDlcTransactions"} -> {<<"transactions", Of(call)>>}
    [] Op(call) \in {"saveChannelAnnouncement", "deleteChannelAnnouncement"} -> {<<"channel", Of(call)>>}
    [] OTHER -> {}

LinksOf(records) ==
  UNION {{<<Channel[r[2]][k], r[2]>> : k \in 1..2} : r \in {r \in records : r[1] = "channel"}}

Working(record) == \E w \in Tasks : Busy(w) /\ record \in Records(running[w].call)

-----------------------------------------------------------------------------
List(n) == IF Links(n) \in DOMAIN db THEN db[Links(n)] ELSE {}
With(key, value) == [k \in DOMAIN db \union {key} |-> IF k = key THEN value ELSE db[k]]
Without(key) == [k \in DOMAIN db \ {key} |-> db[k]]

Init ==
  /\ db = [k \in {Offer(c) : c \in DOMAIN Contract} |-> k[2]]  \* offers saved before
  /\ calls \in Workload
  /\ running = [w \in 1..2 |-> Idle]
  /\ crashes = 0 /\ gone = {} /\ torn = {} /\ astray = {}

Begin(w, call) ==
  /\ ~Busy(w) /\ call \in calls
  /\ calls' = calls \ {call}
  /\ running' = [running EXCEPT ![w] = [call |-> call, todo |-> StepsOf(call), seen |-> {}]]
  /\ astray' = astray \union LinksOf({r \in Records(call) : Working(r)})
  /\ UNCHANGED <<db, crashes, gone, torn>>

Todo(w, do) == Busy(w) /\ Head(running[w].todo).do = do
Key(w) == Head(running[w].todo).key

Goes(w, on) ==
  LET task == running[w]
  IN  running' = [running EXCEPT ![w] = IF on /\ Len(task.todo) > 1 THEN [task EXCEPT !.todo = Tail(task.todo)]
                                        ELSE Idle]

\* What is read is not there: the call returns, or throws.
Need(w) ==
  /\ Todo(w, "need")
  /\ Goes(w, Key(w) \in DOMAIN db)
  /\ UNCHANGED <<db, calls, crashes, gone, torn, astray>>

Throw(w) ==
  /\ Todo(w, "throw")
  /\ Goes(w, FALSE)
  /\ UNCHANGED <<db, calls, crashes, gone, torn, astray>>

PutStep(w) ==
  /\ Todo(w, "put")
  /\ db' = With(Key(w), Head(running[w].todo).value)
  /\ gone' = gone \ {Key(w)} /\ torn' = torn \ {Key(w)}
  /\ astray' = IF \E v \in Tasks \ {w} : Busy(v) /\ Key(w) \in Records(running[v].call) THEN astray
               ELSE astray \ LinksOf({Key(w)})
  /\ Goes(w, TRUE)
  /\ UNCHANGED <<calls, crashes>>

DelStep(w) ==
  /\ Todo(w, "del")
  /\ db' = Without(Key(w))
  /\ gone' = gone \union {Key(w)}
  /\ astray' = IF Key(w)[1] = "links" THEN astray \union ({Key(w)[2]} \X List(Key(w)[2])) ELSE astray
  /\ Goes(w, TRUE)
  /\ UNCHANGED <<calls, crashes, torn>>

\* findChannelsForNode: the list is gone over after the read.
ReadStep(w) ==
  /\ Todo(w, "read")
  /\ running' = [running EXCEPT ![w].todo = Tail(@), ![w].seen = List(Key(w)[2])]
  /\ UNCHANGED <<db, calls, crashes, gone, torn, astray>>

\* _putNodeChannels: what others wrote since the read is lost.
PutList(w, n, list) ==
  /\ db' = With(Links(n), list)
  /\ astray' = astray \union {<<n, x>> : x \in (List(n) \ running[w].seen) \union (running[w].seen \ List(n))}

LinkStep(w) ==
  /\ Todo(w, "link")
  /\ LET ch == Of(running[w].call)
         seen == running[w].seen
     IN  IF ch \in seen THEN UNCHANGED <<db, astray>> ELSE PutList(w, Key(w)[2], seen \union {ch})
  /\ Goes(w, TRUE)
  /\ UNCHANGED <<calls, crashes, gone, torn>>

UnlinkStep(w) ==
  /\ Todo(w, "unlink")
  /\ LET ch == Of(running[w].call)
         seen == running[w].seen
     IN  IF ch \in seen THEN PutList(w, Key(w)[2], seen \ {ch}) ELSE UNCHANGED <<db, astray>>
  /\ Goes(w, TRUE)
  /\ UNCHANGED <<calls, crashes, gone, torn>>

\* The process ends between two steps; the calls it was in are made again.
Crash ==
  /\ crashes < MaxCrashes
  /\ LET cut == {running[w].call : w \in {w \in Tasks : Busy(w)}}
     IN  /\ cut # {}
         /\ calls' = calls \union cut
         /\ torn' = torn \union UNION {Records(call) : call \in cut}
  /\ running' = [w \in Tasks |-> Idle]
  /\ crashes' = crashes + 1
  /\ UNCHANGED <<db, gone, astray>>

Step(w) == Need(w) \/ Throw(w) \/ PutStep(w) \/ DelStep(w) \/ ReadStep(w) \/ LinkStep(w) \/ UnlinkStep(w)

Next == (\E w \in Tasks : Step(w) \/ \E call \in calls : Begin(w, call)) \/ Crash

Spec == Init /\ [][Next]_vars

-----------------------------------------------------------------------------
Saved(record) == record \in DOMAIN db
Known(record) == Saved(record) \/ record \in gone

\* A contract of a batch with several inputs, or with as many as accepts: the
\* inner loop files an outpoint under the contract of an accept it has not come
\* to, or throws for want of an accept.
Overrun(c) ==
  \E asked \in Workload : \E call \in asked :
    /\ Op(call) = "saveDlcAccepts" /\ c \in ToSet(Of(call))
    /\ Len(Contract[c].inputs) > 1 \/ Len(Contract[c].inputs) >= Len(Of(call))

(* leveldb-dlc-store.ts, leveldb-gossip-store.ts: at every moment, and after *)
(* a crash at any, what a key leads to is there, or was deleted since; but   *)
(* for a batch that files too early, and lists two calls wrote over.         *)
IndexHasRecord ==
  /\ \A key \in DOMAIN db :
       /\ key[1] = "temp" => Known(<<"accept", db[key]>>)
       /\ key[1] = "script" => Known(<<"transactions", db[key]>>)
       /\ key[1] = "outpoint" =>
            Known(<<"accept", db[key]>>) \/ Known(<<"transactions", db[key]>>) \/ Overrun(db[key])
       /\ key[1] = "funding" => Known(<<"channel", db[key]>>)
       /\ key[1] = "links" => \A ch \in db[key] : Saved(<<"channel", ch>>) \/ <<key[2], ch>> \in astray

\* A key leads to a contract it stands for: of two, to the one saved last.
LeadsTo(key, IsOf(_)) == key \in DOMAIN db /\ IsOf(db[key])

Spends(c, o) == o \in ToSet(Contract[c].inputs)

Settled(record) == Saved(record) /\ ~Working(record) /\ record \notin torn

(* A record whose saving was not cut short is found by all its keys, however *)
(* the calls interleave; a save made again after a crash mends what the      *)
(* crash left; a fund output is found unless another contract spends it, and *)
(* the outpoint of an announcement leads to a channel that it funds.         *)
RecordIsIndexed ==
  /\ \A c \in DOMAIN Contract :
       /\ Settled(<<"accept", c>>) /\ ~Overrun(c) =>
            /\ LeadsTo(Temp(c), LAMBDA x : Contract[x].temp = Contract[c].temp)
            /\ \A o \in ToSet(Contract[c].inputs) :
                 LeadsTo(Outpoint(o), LAMBDA x : Spends(x, o) \/ Contract[x].out = o)
       /\ Settled(<<"transactions", c>>) =>
            /\ LeadsTo(Script(c), LAMBDA x : Contract[x].spk = Contract[c].spk)
            /\ LeadsTo(Outpoint(Contract[c].out), LAMBDA x : x = c \/ Spends(x, Contract[c].out))
  /\ \A ch \in DOMAIN Channel :
       Settled(<<"channel", ch>>) =>
         /\ db[<<"channel", ch>>] = "extended" => LeadsTo(Funding(ch), LAMBDA x : Channel[x][3] = Channel[ch][3])
         /\ \A k \in 1..2 : ch \in List(Channel[ch][k]) \/ <<Channel[ch][k], ch>> \in astray
=============================================================================
