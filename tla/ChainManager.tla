---------------------------- MODULE ChainManager ----------------------------
(***************************************************************************)
(* How a node recovers the state of its DLCs from the block chain when it  *)
(* starts: packages/messaging/lib/chain/ChainManager.ts on top of the DLC  *)
(* store of packages/leveldb.  start() is one long asynchronous function;  *)
(* an action is what it does between two awaits that matter, and between   *)
(* any two of them blocks are mined or the process crashes.                *)
(*                                                                         *)
(* Every DLC has one funding transaction, whose DLC output is spent by one *)
(* closing transaction (a CET, the refund, or a mutual close) and which    *)
(* may have a change output that some other transaction spends.            *)
(***************************************************************************)
EXTENDS Integers, FiniteSets

CONSTANTS
    Dlcs,
    Cets,         \* the CETs of a DLC
    FirstCet,     \* the one that findDlcTransactionsList parses
    Refund, Mutual,
    ClosedBy,     \* which transaction closes each DLC, if one does
    Change,       \* the DLCs whose change output may be spent
    StartHeights, \* the argument of start(): 0 by default
    Faults,       \* whether an RPC call may fail where the failure is caught
    MaxHeight     \* bound: blocks mined

Closers == Cets \cup {Refund, Mutual}
Heights == 0..MaxHeight

ASSUME CetsAssumption ==
    /\ FirstCet \in Cets
    /\ Refund \notin Cets /\ Mutual \notin Cets /\ Refund # Mutual
ASSUME ChainAssumption ==
    /\ ClosedBy \in [Dlcs -> Closers] /\ Change \subseteq Dlcs
    /\ MaxHeight \in Nat \ {0} /\ StartHeights \subseteq Heights /\ Faults \in BOOLEAN

(* The transactions of a DLC; and what is known of one: it has not been    *)
(* broadcast, it is in the mempool, or it is in the block of that height.  *)
Txs == [kind : {"fund", "close", "change"}, dlc : Dlcs]
Unknown == -1
Mempool == 0

Tx(k, d) == [kind |-> k, dlc |-> d]

(* DlcTransactions: fundEpoch.height, closeEpoch.height, closeType, cets.  *)
(* The broadcast heights, which nothing reads, are left out.               *)
Records == [fund : Heights, close : Heights, type : 0..3, cets : SUBSET Cets]
Blank == [fund |-> 0, close |-> 0, type |-> 0, cets |-> {}]

VARIABLES
    tip, at,         \* the chain: its height, where each transaction is
    saved, store,    \* the DLCs in the store, and their records
    phase,           \* how far start() has come
    list, mem,       \* dlcTxsList: the DLCs, and their records
    todo,            \* the DLCs that _validateUtxos has still to look at
    cur, utxo,       \* the DLC it is looking at, what getUtxo returned
    verify,          \* dlcTxsToVerify
    blockHeight, target, \* blockHeight; info.blocks
    txs,             \* the transactions of the block still to be checked
    bg,              \* the DLCs for which updateFundBroadcast is running
    from, startTip, erred \* history: the height resumed from, the tip when
                     \* start() began, an RPC failure was swallowed

chain == <<tip, at>>
scan == <<blockHeight, target, txs>>
history == <<from, startTip, erred>>
vars == <<chain, saved, store, phase, list, mem, todo, cur, utxo, verify, scan, bg, history>>

Init ==
    /\ tip = 1
    /\ at = [t \in Txs |-> Unknown]
    /\ saved = {} /\ store = [d \in Dlcs |-> Blank]
    /\ phase = "down"
    /\ list = {} /\ mem = [d \in Dlcs |-> Blank]
    /\ todo = {} /\ cur = {} /\ utxo = "none" /\ verify = {}
    /\ blockHeight = 0 /\ target = 0 /\ txs = {} /\ bg = {}
    /\ from = 0 /\ startTip = 0 /\ erred = FALSE

-----------------------------------------------------------------------------
(* The network: a transaction is broadcast when what it spends has been;   *)
(* a block holds some of the mempool.                                      *)
Spends(t) == IF t.kind = "fund" THEN {} ELSE {Tx("fund", t.dlc)}

Broadcast(t) ==
    /\ at[t] = Unknown
    /\ t.kind = "fund" => t.dlc \in saved
    /\ t.kind = "change" => t.dlc \in Change
    /\ \A s \in Spends(t) : at[s] # Unknown
    /\ at' = [at EXCEPT ![t] = Mempool]
    /\ UNCHANGED <<tip, saved, store, phase, list, mem, todo, cur, utxo, verify, scan, bg,
                   history>>

Mine(block) ==
    /\ tip < MaxHeight
    /\ \A t \in block : at[t] = Mempool
    /\ \A t \in block : \A s \in Spends(t) : s \in block \/ at[s] > 0
    /\ tip' = tip + 1
    /\ at' = [t \in Txs |-> IF t \in block THEN tip + 1 ELSE at[t]]
    /\ UNCHANGED <<saved, store, phase, list, mem, todo, cur, utxo, verify, scan, bg,
                   history>>

(* The application stores a signed DLC, with all its CETs. *)
SaveDlc(d) ==
    /\ phase = "synced" /\ d \notin saved
    /\ saved' = saved \cup {d}
    /\ store' = [store EXCEPT ![d] = [Blank EXCEPT !.cets = Cets]]
    /\ UNCHANGED <<chain, phase, list, mem, todo, cur, utxo, verify, scan, bg, history>>

-----------------------------------------------------------------------------
(* saveDlcTransactions: the record in memory replaces the stored one. *)
Save(d, record) ==
    /\ mem' = [mem EXCEPT ![d] = record]
    /\ store' = [store EXCEPT ![d] = record]

(* findDlcTransactionsList parses only the first CET. *)
Parsed(record) == [record EXCEPT !.cets = @ \cap {FirstCet}]

Epochs(ds) == {store[d].fund : d \in ds} \cup {store[d].close : d \in ds}

(* start(0) resumes from the highest epoch in the store.                   *)
Highest == {h \in {0} \cup Epochs(saved) : \A e \in Epochs(saved) : e <= h}

Resume(h) == IF h = 0 THEN Highest ELSE {h}

(* Mutant: the DLCs whose close is known are validated too. *)
ToValidateAll == saved

(* _validateUtxos passes over the DLCs whose close has been recorded. *)
ToValidate == {d \in saved : store[d].close = 0}

(* start, up to the first getUtxo: waitForSync and _restoreState. *)
Start(h) ==
    /\ phase = "down"
    /\ phase' = "utxos"
    /\ list' = saved
    /\ mem' = [d \in Dlcs |-> IF d \in saved THEN Parsed(store[d]) ELSE Blank]
    /\ blockHeight' \in Resume(h)
    /\ todo' = ToValidate
    /\ verify' = {} /\ txs' = {} /\ target' = 0
    /\ from' = blockHeight' /\ startTip' = tip /\ erred' = FALSE
    /\ UNCHANGED <<chain, saved, store, cur, utxo, bg>>

(* gettxout sees the mempool: an output that a transaction there spends is *)
(* gone, one that a transaction there makes has no confirmation.           *)
Utxo(d) ==
    IF at[Tx("fund", d)] = Unknown \/ at[Tx("close", d)] # Unknown THEN "none"
    ELSE IF at[Tx("fund", d)] = Mempool THEN "unconfirmed" ELSE "confirmed"

GetUtxo(d) ==
    /\ phase = "utxos" /\ cur = {} /\ d \in todo
    /\ cur' = {d} /\ todo' = todo \ {d}
    /\ utxo' = Utxo(d)
    /\ UNCHANGED <<chain, saved, store, phase, list, mem, verify, scan, bg, history>>

Got(d) == phase = "utxos" /\ d \in cur /\ cur' = {} /\ utxo' = "none"

(* Mutant: the DLC is tried again. *)
GetTransactionRetried(d) ==
    /\ Got(d)
    /\ at[Tx("fund", d)] = Unknown \/ Faults
    /\ todo' = todo \cup {d}
    /\ erred' = (erred \/ at[Tx("fund", d)] # Unknown)
    /\ UNCHANGED <<chain, saved, store, phase, list, mem, verify, scan, bg, from, startTip>>

(* getTransaction fails: the funding transaction does not exist, or the    *)
(* call does; the DLC is passed over.                                      *)
GetTransactionFails(d) ==
    /\ Got(d)
    /\ at[Tx("fund", d)] = Unknown \/ Faults
    /\ erred' = (erred \/ at[Tx("fund", d)] # Unknown)
    /\ UNCHANGED <<chain, saved, store, phase, list, mem, todo, verify, scan, bg,
                   from, startTip>>

(* The output is spent: its spender is to be looked for; *)
FoundSpent(d) ==
    /\ Got(d) /\ utxo = "none" /\ at[Tx("fund", d)] # Unknown
    /\ verify' = verify \cup {d}
    /\ UNCHANGED <<chain, saved, store, phase, list, mem, todo, scan, bg, history>>

(* it is not confirmed: updateFundBroadcast is called and not awaited;     *)
FoundUnconfirmed(d) ==
    /\ Got(d) /\ utxo = "unconfirmed"
    /\ bg' = bg \cup {d}
    /\ UNCHANGED <<chain, saved, store, phase, list, mem, todo, verify, scan, history>>

(* it is confirmed: updateFundEpoch, unless that is known.                 *)
FoundConfirmed(d) ==
    /\ Got(d) /\ utxo = "confirmed"
    /\ IF mem[d].fund = 0
       THEN Save(d, [mem[d] EXCEPT !.fund = at[Tx("fund", d)]])
       ELSE UNCHANGED <<mem, store>>
    /\ UNCHANGED <<chain, saved, phase, list, todo, verify, scan, bg, history>>

(* updateFundBroadcast, and updateCloseBroadcast, which the application    *)
(* calls for a DLC of the manager's list.                                  *)
FundBroadcastSaved(d) ==
    /\ d \in bg
    /\ bg' = bg \ {d}
    /\ Save(d, mem[d])
    /\ UNCHANGED <<chain, saved, phase, list, todo, cur, utxo, verify, scan, history>>

UpdateCloseBroadcast(d) ==
    /\ phase = "synced" /\ d \in list
    /\ Save(d, mem[d])
    /\ UNCHANGED <<chain, saved, phase, list, todo, cur, utxo, verify, scan, bg, history>>

-----------------------------------------------------------------------------
(* _validateClosingUtxos, when there is something to look for and a height *)
(* to start from; else start() is done.                                    *)
Validated ==
    /\ phase = "utxos" /\ todo = {} /\ cur = {}
    /\ target' = tip
    /\ phase' = IF verify = {} \/ blockHeight = 0 \/ tip <= blockHeight
                THEN "synced" ELSE "scan"
    /\ UNCHANGED <<chain, saved, store, list, mem, todo, cur, utxo, verify, blockHeight, txs, bg,
                   history>>

(* Mutant: the height is incremented after the block was read. *)
ReadBlockLate ==
    /\ phase = "scan"
    /\ phase' = "block"
    /\ blockHeight' = blockHeight + 1
    /\ txs' = {t \in Txs : at[t] = blockHeight}
    /\ UNCHANGED <<chain, saved, store, list, mem, todo, cur, utxo, verify, target, bg, history>>

(* The next block is read. *)
ReadBlock ==
    /\ phase = "scan"
    /\ phase' = "block"
    /\ blockHeight' = blockHeight + 1
    /\ txs' = {t \in Txs : at[t] = blockHeight + 1}
    /\ UNCHANGED <<chain, saved, store, list, mem, todo, cur, utxo, verify, target, bg, history>>

Spender(t) == IF t.kind = "close" THEN {ClosedBy[t.dlc]} ELSE {}

(* The closeType that updateCloseEpoch infers, from the CETs in the store. *)
CloseType(t) ==
    IF Refund \in Spender(t) THEN 2
    ELSE IF Spender(t) \cap store[t.dlc].cets # {} THEN 1 ELSE 3

(* _checkOutpoints compares the id of the funding transaction, not the     *)
(* index of the output.                                                    *)
Matches(t) == t.kind \in {"close", "change"} /\ t.dlc \in verify

(* Mutant: the rest of the block is not looked at after a match. *)
CheckTxStops(t) ==
    /\ phase = "block" /\ t \in txs
    /\ txs' = IF Matches(t) THEN {} ELSE txs \ {t}
    /\ IF Matches(t)
       THEN Save(t.dlc, [mem[t.dlc] EXCEPT !.close = blockHeight, !.type = CloseType(t)])
       ELSE UNCHANGED <<mem, store>>
    /\ UNCHANGED <<chain, saved, phase, list, todo, cur, utxo, verify, blockHeight, target, bg,
                   history>>

(* Every transaction of the block is checked, and every match is recorded. *)
CheckTx(t) ==
    /\ phase = "block" /\ t \in txs
    /\ txs' = txs \ {t}
    /\ IF Matches(t)
       THEN Save(t.dlc, [mem[t.dlc] EXCEPT !.close = blockHeight, !.type = CloseType(t)])
       ELSE UNCHANGED <<mem, store>>
    /\ UNCHANGED <<chain, saved, phase, list, todo, cur, utxo, verify, blockHeight, target, bg,
                   history>>

(* getBlock fails: the transaction is logged as invalid and passed over. *)
CheckTxFails(t) ==
    /\ phase = "block" /\ t \in txs /\ Matches(t) /\ Faults
    /\ txs' = txs \ {t}
    /\ erred' = TRUE
    /\ UNCHANGED <<chain, saved, store, phase, list, mem, todo, cur, utxo, verify,
                   blockHeight, target, bg, from, startTip>>

(* After the last block that was known, the tip is asked for again. *)
BlockDone ==
    /\ phase = "block" /\ txs = {}
    /\ target' = IF target = blockHeight THEN tip ELSE target
    /\ phase' = IF target' = blockHeight THEN "synced" ELSE "scan"
    /\ UNCHANGED <<chain, saved, store, list, mem, todo, cur, utxo, verify, blockHeight, txs, bg,
                   history>>

(* The process ends, or start() rejects and the process is restarted. *)
Crash ==
    /\ phase # "down"
    /\ phase' = "down"
    /\ list' = {} /\ mem' = [d \in Dlcs |-> Blank]
    /\ todo' = {} /\ cur' = {} /\ utxo' = "none" /\ verify' = {}
    /\ blockHeight' = 0 /\ target' = 0 /\ txs' = {} /\ bg' = {}
    /\ from' = 0 /\ startTip' = 0 /\ erred' = FALSE
    /\ UNCHANGED <<chain, saved, store>>

Manager ==
    \/ \E d \in Dlcs :
          \/ GetUtxo(d) \/ GetTransactionFails(d)
          \/ FoundSpent(d) \/ FoundUnconfirmed(d) \/ FoundConfirmed(d)
    \/ Validated \/ ReadBlock \/ BlockDone
    \/ \E t \in Txs : CheckTx(t) \/ CheckTxFails(t)

Next ==
    \/ \E t \in Txs : Broadcast(t)
    \/ \E block \in SUBSET Txs : Mine(block)
    \/ \E d \in Dlcs : SaveDlc(d) \/ FundBroadcastSaved(d) \/ UpdateCloseBroadcast(d)
    \/ \E h \in StartHeights : Start(h)
    \/ Manager
    \/ Crash

Spec == Init /\ [][Next]_vars

(* The RPC calls that start() awaits answer. *)
FairSpec == Spec /\ WF_vars(Manager)

-----------------------------------------------------------------------------
TypeOK ==
    /\ tip \in Heights /\ at \in [Txs -> Heights \cup {Unknown}] 
    /\ saved \in SUBSET Dlcs /\ store \in [Dlcs -> Records]
    /\ phase \in {"down", "utxos", "scan", "block", "synced"}
    /\ list \in SUBSET Dlcs /\ mem \in [Dlcs -> Records]
    /\ todo \in SUBSET Dlcs /\ cur \in SUBSET Dlcs /\ verify \in SUBSET Dlcs
    /\ utxo \in {"none", "unconfirmed", "confirmed"}
    /\ blockHeight \in Heights /\ target \in Heights /\ txs \in SUBSET Txs
    /\ bg \in SUBSET Dlcs
    /\ from \in Heights /\ startTip \in Heights /\ erred \in BOOLEAN

(* An epoch that is recorded is that of a block which really holds the     *)
(* funding transaction, or a transaction that spends one of its outputs,   *)
(* and nothing is recorded as an execution or a refund that is not one,    *)
(* however the node crashed and whatever it looked up in between.          *)
RecordsAreTrue == \A d \in saved :
    /\ store[d].fund # 0 => store[d].fund = at[Tx("fund", d)]
    /\ store[d].close # 0 => store[d].close \in {at[Tx("close", d)], at[Tx("change", d)]}
    /\ store[d].type = 1 => ClosedBy[d] \in Cets
    /\ store[d].type = 2 => ClosedBy[d] = Refund

(* What lies between the height that start() resumes from and the tip it   *)
(* found is recorded when it is done, unless a call has failed.            *)
ResumeFindsAll ==
    phase = "synced" /\ from # 0 /\ ~erred =>
        \A d \in list :
            at[Tx("close", d)] \in (from + 1)..startTip => store[d].close # 0

(* A DLC whose close is known is not looked for again, by this start() or  *)
(* a later one, and its record stays: only the scan that found it may find *)
(* another transaction that spends from the same funding transaction.      *)
SettledCloseStays ==
    [][ \A d \in saved :
            store[d].close # 0 /\ d \notin verify =>
                d \notin verify' /\ store'[d].close = store[d].close ]_vars

(* start() catches up with the chain and is done. *)
StartCompletes == (phase = "utxos") ~> (phase \in {"synced", "down"})

=============================================================================
