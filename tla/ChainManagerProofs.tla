------------------------- MODULE ChainManagerProofs -------------------------
(* What holds of ChainManager for any DLCs, any chain and any crashes.     *)
EXTENDS ChainManager, TLAPS

(* What a start() works on is in the store, as it was read or saved since. *)
ListOK ==
    /\ list \subseteq saved /\ todo \subseteq list /\ cur \subseteq list
    /\ verify \subseteq list /\ bg \subseteq list
    /\ phase = "down" => list = {}
    /\ phase # "utxos" => todo = {} /\ cur = {}
    /\ phase # "block" => txs = {}
    /\ \A d \in todo \cup cur : store[d].close = 0
    /\ \A d, e \in cur : d = e

MemOK == \A d \in list :
    /\ mem[d].fund = store[d].fund
    /\ mem[d].close = store[d].close
    /\ mem[d].type = store[d].type

(* A transaction follows what it spends, and no block lies above the tip.  *)
ChainOK ==
    /\ \A t \in Txs : at[t] <= tip
    /\ \A d \in Dlcs : at[Tx("close", d)] # Unknown => at[Tx("fund", d)] # Unknown

LookOK == \A d \in cur : utxo = "confirmed" => at[Tx("fund", d)] > 0

ScanOK ==
    /\ startTip <= tip
    /\ phase = "utxos" => blockHeight = from
    /\ phase = "scan" => from <= blockHeight /\ blockHeight < target /\ target <= tip
    /\ phase = "block" => from < blockHeight /\ blockHeight <= target /\ target <= tip
    /\ \A t \in txs : at[t] = blockHeight

(* A close that start() is to find is still ahead of it.                   *)
Ahead(d) ==
    \/ d \in todo
    \/ d \in cur /\ utxo = "none"
    \/ d \in verify /\ phase = "utxos"
    \/ d \in verify /\ phase \in {"scan", "block"} /\ at[Tx("close", d)] > blockHeight
    \/ d \in verify /\ phase = "block" /\ Tx("close", d) \in txs

Due(d) == at[Tx("close", d)] \in (from + 1)..startTip /\ store[d].close = 0

FindOK == ~erred => \A d \in list : Due(d) => Ahead(d) \/ (phase = "synced" /\ from = 0)

IInv == TypeOK /\ ListOK /\ MemOK /\ ChainOK /\ LookOK /\ ScanOK /\ FindOK /\ RecordsAreTrue

LEMMA TxInTxs == \A d \in Dlcs : \A k \in {"fund", "close", "change"} : Tx(k, d) \in Txs
BY DEF Tx, Txs

LEMMA TxParts == \A d \in Dlcs : \A k \in {"fund", "close", "change"} :
    Tx(k, d).kind = k /\ Tx(k, d).dlc = d
BY DEF Tx

LEMMA TxWhole == \A t \in Txs : t = Tx(t.kind, t.dlc) /\ t.dlc \in Dlcs
BY DEF Tx, Txs

LEMMA BlankOK == Blank \in Records
BY ChainAssumption DEF Blank, Records, Heights

LEMMA InitOK == Init => IInv
<1>. SUFFICES ASSUME Init PROVE IInv
  OBVIOUS
<1>1. TypeOK
  <2>1. tip \in Heights /\ blockHeight \in Heights /\ target \in Heights
    BY ChainAssumption DEF Init, Heights
  <2>2. from \in Heights /\ startTip \in Heights
    BY ChainAssumption DEF Init, Heights
  <2>4. erred \in BOOLEAN
    BY Zenon DEF Init
  <2>3. at \in [Txs -> Heights \cup {Unknown}]
    BY DEF Init
  <2>. QED
    BY <2>1, <2>2, <2>3, <2>4, BlankOK DEF Init, TypeOK
<1>2. ListOK /\ MemOK /\ LookOK
  BY DEF Init, ListOK, MemOK, LookOK, Blank
<1>3. ChainOK
  BY TxInTxs DEF Init, ChainOK, Unknown
<1>4. ScanOK /\ FindOK
  BY DEF Init, ScanOK, FindOK
<1>5. RecordsAreTrue
  BY DEF Init, RecordsAreTrue
<1>. QED
  BY <1>1, <1>2, <1>3, <1>4, <1>5 DEF IInv

-----------------------------------------------------------------------------
LEMMA BroadcastOK ==
    ASSUME IInv, NEW t \in Txs, Broadcast(t)
    PROVE  IInv'
<1>. USE DEF Broadcast, IInv, chain, scan, history
<1>1. TypeOK'
  BY ChainAssumption DEF TypeOK, Mempool, Heights
<1>2. ListOK' /\ MemOK'
  BY DEF ListOK, MemOK
<1>3. \A s \in Txs : at'[s] = IF s = t THEN 0 ELSE at[s]
  BY DEF TypeOK, Mempool
<1>4. \A s \in Txs : at[s] > 0 => at'[s] = at[s]
  BY <1>3 DEF Unknown, TypeOK
<1>5. ChainOK'
  <2>1. \A s \in Txs : at'[s] <= tip'
    BY <1>3, ChainAssumption DEF ChainOK, TypeOK, Heights
  <2>2. ASSUME NEW d \in Dlcs, at'[Tx("close", d)] # Unknown
        PROVE  at'[Tx("fund", d)] # Unknown
    <3>1. CASE t = Tx("close", d)
      BY <3>1, <1>3, TxInTxs, TxParts DEF Spends, Unknown
    <3>2. CASE t # Tx("close", d)
      BY <3>2, <2>2, <1>3, TxInTxs DEF ChainOK, Unknown
    <3>. QED
      BY <3>1, <3>2
  <2>. QED
    BY <2>1, <2>2 DEF ChainOK
<1>6. LookOK'
  BY <1>4, TxInTxs DEF LookOK, TypeOK
<1>7. ScanOK'
  <2>1. \A s \in txs : at'[s] = blockHeight
    <3>1. \A s \in txs : s \in Txs /\ at[s] = blockHeight /\ at[s] # Unknown
      BY DEF ScanOK, TypeOK, Unknown, Heights
    <3>. QED
      BY <3>1, <1>3
  <2>. QED
    BY <2>1 DEF ScanOK
<1>8. FindOK'
  <2>1. \A d \in list : Due(d)' => Due(d) /\ at'[Tx("close", d)] = at[Tx("close", d)]
    BY <1>3, TxInTxs, ChainAssumption DEF Due, TypeOK, Heights
  <2>. QED
    BY <2>1 DEF FindOK, Ahead
<1>9. RecordsAreTrue'
  <2>1. \A d \in saved : store[d].fund \in Nat /\ store[d].close \in Nat
    BY DEF TypeOK, Records, Heights
  <2>. QED
    BY <1>4, <2>1, TxInTxs DEF RecordsAreTrue, TypeOK
<1>. QED
  BY <1>1, <1>2, <1>5, <1>6, <1>7, <1>8, <1>9

LEMMA MineOK ==
    ASSUME IInv, NEW block \in SUBSET Txs, Mine(block)
    PROVE  IInv'
<1>. USE DEF Mine, IInv, chain, scan, history
<1>1. TypeOK'
  BY ChainAssumption DEF TypeOK, Heights
<1>2. ListOK' /\ MemOK'
  BY DEF ListOK, MemOK
<1>3. \A s \in Txs : at'[s] = IF s \in block THEN tip + 1 ELSE at[s]
  OBVIOUS
<1>4. \A s \in Txs : at[s] > 0 => at'[s] = at[s]
  BY <1>3 DEF Mempool, TypeOK
<1>5. ChainOK'
  <2>1. \A s \in Txs : at'[s] <= tip'
    BY <1>3, ChainAssumption DEF ChainOK, TypeOK, Heights, Unknown
  <2>2. ASSUME NEW d \in Dlcs, at'[Tx("close", d)] # Unknown
        PROVE  at'[Tx("fund", d)] # Unknown
    <3>1. at[Tx("close", d)] # Unknown
      BY <2>2, <1>3, TxInTxs DEF Mempool, Unknown
    <3>. QED
      BY <3>1, <1>3, TxInTxs, ChainAssumption DEF ChainOK, Mempool, Unknown, TypeOK, Heights
  <2>. QED
    BY <2>1, <2>2 DEF ChainOK
<1>6. LookOK'
  BY <1>4, TxInTxs DEF LookOK, TypeOK
<1>7. ScanOK'
  <2>1. \A s \in txs : at'[s] = blockHeight
    <3>1. \A s \in txs : s \in Txs /\ at[s] = blockHeight /\ at[s] > 0
      BY DEF ScanOK, ListOK, TypeOK, Unknown, Heights
    <3>. QED
      BY <3>1, <1>4
  <2>2. tip \in Nat /\ tip' = tip + 1 /\ startTip \in Nat /\ target \in Nat
    BY ChainAssumption DEF TypeOK, Heights
  <2>. QED
    BY <2>1, <2>2 DEF ScanOK
<1>8. FindOK'
  <2>1. \A d \in list : Due(d)' => Due(d) /\ at'[Tx("close", d)] = at[Tx("close", d)]
    BY <1>3, TxInTxs, ChainAssumption DEF Due, TypeOK, Heights, ScanOK
  <2>. QED
    BY <2>1 DEF FindOK, Ahead
<1>9. RecordsAreTrue'
  <2>1. \A d \in saved : store[d].fund \in Nat /\ store[d].close \in Nat
    BY DEF TypeOK, Records, Heights
  <2>. QED
    BY <1>4, <2>1, TxInTxs DEF RecordsAreTrue, TypeOK
<1>. QED
  BY <1>1, <1>2, <1>5, <1>6, <1>7, <1>8, <1>9

LEMMA SaveDlcOK ==
    ASSUME IInv, NEW d \in Dlcs, SaveDlc(d)
    PROVE  IInv'
<1>. USE DEF SaveDlc, IInv, chain, scan, history
<1>1. [Blank EXCEPT !.cets = Cets] \in Records
  BY BlankOK DEF Records, Blank
<1>2. TypeOK'
  BY <1>1 DEF TypeOK
<1>3. \A e \in Dlcs : e # d => store'[e] = store[e]
  BY DEF TypeOK
<1>4. store'[d].fund = 0 /\ store'[d].close = 0 /\ store'[d].type = 0
  BY DEF TypeOK, Blank
<1>5. d \notin list
  BY DEF ListOK
<1>6. ListOK' /\ MemOK'
  BY <1>3, <1>5 DEF ListOK, MemOK, TypeOK
<1>7. ChainOK' /\ LookOK' /\ ScanOK'
  BY DEF ChainOK, LookOK, ScanOK
<1>8. FindOK'
  BY <1>3, <1>5 DEF FindOK, Due, Ahead, TypeOK
<1>9. RecordsAreTrue'
  BY <1>3, <1>4 DEF RecordsAreTrue, TypeOK
<1>. QED
  BY <1>2, <1>6, <1>7, <1>8, <1>9

LEMMA ParsedOK == \A r \in Records :
    /\ Parsed(r) \in Records
    /\ Parsed(r).fund = r.fund /\ Parsed(r).close = r.close /\ Parsed(r).type = r.type
BY CetsAssumption DEF Parsed, Records

LEMMA StartOK ==
    ASSUME IInv, NEW h \in StartHeights, Start(h)
    PROVE  IInv'
<1>. USE DEF Start, IInv, chain, history
<1>1. blockHeight' \in Heights
  <2>1. \A e \in saved : store[e].fund \in Heights /\ store[e].close \in Heights
    BY DEF TypeOK, Records
  <2>2. Highest \subseteq Heights
    BY <2>1, ChainAssumption DEF Highest, Epochs, Heights
  <2>. QED
    BY <2>2, ChainAssumption DEF Resume
<1>2. TypeOK'
  <2>1. mem' \in [Dlcs -> Records]
    BY ParsedOK, BlankOK DEF TypeOK
  <2>2. /\ list' \in SUBSET Dlcs /\ todo' \in SUBSET Dlcs /\ verify' \in SUBSET Dlcs
        /\ txs' \in SUBSET Txs
    BY DEF TypeOK, ToValidate
  <2>3. target' \in Heights /\ from' \in Heights /\ startTip' \in Heights
    BY <1>1, ChainAssumption DEF TypeOK, Heights
  <2>4. erred' \in BOOLEAN
    BY Zenon
  <2>. QED
    BY <1>1, <2>1, <2>2, <2>3, <2>4 DEF TypeOK
<1>3. cur = {} /\ bg = {}
  BY DEF ListOK
<1>4. ListOK'
  BY <1>3 DEF ListOK, ToValidate
<1>5. MemOK'
  BY ParsedOK DEF MemOK, TypeOK
<1>6. ChainOK' /\ LookOK'
  BY <1>3 DEF ChainOK, LookOK
<1>7. ScanOK'
  BY ChainAssumption DEF ScanOK, TypeOK, Heights
<1>8. FindOK'
  BY DEF FindOK, Due, Ahead, ToValidate
<1>9. RecordsAreTrue'
  BY DEF RecordsAreTrue
<1>. QED
  BY <1>2, <1>4, <1>5, <1>6, <1>7, <1>8, <1>9

LEMMA GetUtxoOK ==
    ASSUME IInv, NEW d \in Dlcs, GetUtxo(d)
    PROVE  IInv'
<1>. USE DEF GetUtxo, IInv, chain, scan, history
<1>1. TypeOK'
  BY DEF TypeOK, Utxo
<1>2. ListOK' /\ MemOK'
  BY DEF ListOK, MemOK
<1>3. ChainOK' /\ ScanOK' /\ RecordsAreTrue'
  BY DEF ChainOK, ScanOK, RecordsAreTrue
<1>4. LookOK'
  BY TxInTxs, ChainAssumption DEF LookOK, Utxo, TypeOK, Heights, Unknown, Mempool
<1>5. FindOK'
  <2>1. ASSUME Due(d) PROVE utxo' = "none"
    BY <2>1, ChainAssumption DEF Due, Utxo, Unknown, TypeOK, Heights
  <2>. QED
    BY <2>1 DEF FindOK, Due, Ahead
<1>. QED
  BY <1>1, <1>2, <1>3, <1>4, <1>5

LEMMA GetTransactionFailsOK ==
    ASSUME IInv, NEW d \in Dlcs, GetTransactionFails(d)
    PROVE  IInv'
<1>. USE DEF GetTransactionFails, Got, IInv, chain, scan
<1>1. erred' \in BOOLEAN
  BY Zenon DEF TypeOK
<1>2. TypeOK'
  BY <1>1 DEF TypeOK
<1>3. ListOK' /\ MemOK' /\ ChainOK' /\ LookOK' /\ ScanOK' /\ RecordsAreTrue'
  BY DEF ListOK, MemOK, ChainOK, LookOK, ScanOK, RecordsAreTrue
<1>4. FindOK'
  <2>1. at[Tx("fund", d)] = Unknown => ~Due(d)
    BY TxInTxs, ChainAssumption DEF Due, ChainOK, Unknown, TypeOK, Heights
  <2>2. CASE at[Tx("fund", d)] = Unknown
    <3>1. ~erred' => ~erred
      BY <2>2, Zenon
    <3>2. \A e \in cur : ~Due(e)
      BY <2>1, <2>2 DEF ListOK
    <3>3. \A e \in list : Due(e)' => Due(e)
      BY DEF Due
    <3>4. \A e \in list : Due(e) /\ Ahead(e) => Ahead(e)'
      BY <3>2 DEF Ahead
    <3>. QED
      BY <3>1, <3>3, <3>4 DEF FindOK
  <2>3. CASE at[Tx("fund", d)] # Unknown
    <3>1. erred'
      BY <2>3, Zenon
    <3>. QED
      BY <3>1 DEF FindOK
  <2>. QED
    BY <2>2, <2>3
<1>. QED
  BY <1>2, <1>3, <1>4
LEMMA FoundSpentOK ==
    ASSUME IInv, NEW d \in Dlcs, FoundSpent(d)
    PROVE  IInv'
<1>. USE DEF FoundSpent, Got, IInv, chain, scan, history
<1>1. TypeOK'
  BY DEF TypeOK
<1>2. ListOK' /\ MemOK' /\ ChainOK' /\ LookOK' /\ ScanOK' /\ RecordsAreTrue'
  BY DEF ListOK, MemOK, ChainOK, LookOK, ScanOK, RecordsAreTrue
<1>3. FindOK'
  BY DEF FindOK, Due, Ahead, ListOK
<1>. QED
  BY <1>1, <1>2, <1>3

LEMMA FoundUnconfirmedOK ==
    ASSUME IInv, NEW d \in Dlcs, FoundUnconfirmed(d)
    PROVE  IInv'
<1>. USE DEF FoundUnconfirmed, Got, IInv, chain, scan, history
<1>1. TypeOK'
  BY DEF TypeOK
<1>2. ListOK' /\ MemOK' /\ ChainOK' /\ LookOK' /\ ScanOK' /\ RecordsAreTrue'
  BY DEF ListOK, MemOK, ChainOK, LookOK, ScanOK, RecordsAreTrue
<1>3. FindOK'
  BY DEF FindOK, Due, Ahead, ListOK
<1>. QED
  BY <1>1, <1>2, <1>3

(* What saving a record does to the two copies.                            *)
LEMMA SaveProperties ==
    ASSUME TypeOK, NEW d \in Dlcs, NEW r \in Records, Save(d, r)
    PROVE  /\ mem' \in [Dlcs -> Records] /\ store' \in [Dlcs -> Records]
           /\ mem'[d] = r /\ store'[d] = r
           /\ \A e \in Dlcs : e # d => mem'[e] = mem[e] /\ store'[e] = store[e]
BY DEF TypeOK, Save

LEMMA FoundConfirmedOK ==
    ASSUME IInv, NEW d \in Dlcs, FoundConfirmed(d)
    PROVE  IInv'
<1>. USE DEF FoundConfirmed, Got, IInv, chain, scan, history
<1>1. d \in list /\ store[d].close = 0 /\ utxo # "none"
  BY DEF ListOK
<1>2. CASE mem[d].fund # 0
  <2>1. TypeOK'
    BY <1>2 DEF TypeOK
  <2>2. ListOK' /\ MemOK' /\ ChainOK' /\ LookOK' /\ ScanOK' /\ RecordsAreTrue'
    BY <1>2 DEF ListOK, MemOK, ChainOK, LookOK, ScanOK, RecordsAreTrue
  <2>3. FindOK'
    BY <1>1, <1>2 DEF FindOK, Due, Ahead, ListOK
  <2>. QED
    BY <2>1, <2>2, <2>3
<1>3. CASE mem[d].fund = 0
  <2>. DEFINE r == [mem[d] EXCEPT !.fund = at[Tx("fund", d)]]
  <2>1. at[Tx("fund", d)] \in Heights
    BY TxInTxs, ChainAssumption DEF LookOK, TypeOK, Heights, Unknown
  <2>2. /\ r \in Records /\ r.fund = at[Tx("fund", d)]
        /\ r.close = mem[d].close /\ r.type = mem[d].type
    BY <2>1 DEF TypeOK, Records
  <2>3. Save(d, r)
    BY <1>3
  <2>. HIDE DEF r
  <2>4. /\ mem' \in [Dlcs -> Records] /\ store' \in [Dlcs -> Records]
        /\ mem'[d] = r /\ store'[d] = r
        /\ \A e \in Dlcs : e # d => mem'[e] = mem[e] /\ store'[e] = store[e]
    BY <2>2, <2>3, SaveProperties
  <2>5. TypeOK'
    BY <2>4 DEF TypeOK
  <2>6. \A e \in Dlcs : e \in list => store'[e].close = store[e].close
    BY <1>1, <2>2, <2>4 DEF MemOK
  <2>7. ListOK'
    BY <2>6 DEF ListOK, TypeOK
  <2>8. MemOK'
    BY <2>4 DEF MemOK, TypeOK
  <2>9. ChainOK' /\ LookOK' /\ ScanOK'
    BY DEF ChainOK, LookOK, ScanOK
  <2>10. FindOK'
    BY <1>1, <2>6 DEF FindOK, Due, Ahead, ListOK, TypeOK
  <2>11. RecordsAreTrue'
    BY <1>1, <2>2, <2>4 DEF RecordsAreTrue, MemOK, TypeOK, ListOK
  <2>. QED
    BY <2>5, <2>7, <2>8, <2>9, <2>10, <2>11
<1>. QED
  BY <1>2, <1>3

(* Saving the record of a DLC of the list as it is disturbs nothing but    *)
(* the CETs.                                                               *)
LEMMA ResaveOK ==
    ASSUME IInv, NEW d \in list, Save(d, mem[d]),
           UNCHANGED <<chain, saved, phase, list, todo, cur, utxo, verify, scan, history>>,
           bg' \subseteq bg
    PROVE  IInv'
<1>. USE DEF IInv, chain, scan, history
<1>1. d \in Dlcs /\ mem[d] \in Records
  BY DEF TypeOK
<1>2. /\ mem' \in [Dlcs -> Records] /\ store' \in [Dlcs -> Records]
      /\ mem'[d] = mem[d] /\ store'[d] = mem[d]
      /\ \A e \in Dlcs : e # d => mem'[e] = mem[e] /\ store'[e] = store[e]
  BY <1>1, SaveProperties
<1>3. \A e \in Dlcs : /\ store'[e].fund = store[e].fund /\ store'[e].close = store[e].close
                       /\ store'[e].type = store[e].type
  BY <1>2 DEF MemOK
<1>4. TypeOK'
  BY <1>2 DEF TypeOK
<1>5. ListOK'
  BY <1>3 DEF ListOK, TypeOK
<1>6. MemOK'
  BY <1>2 DEF MemOK, TypeOK
<1>7. ChainOK' /\ LookOK' /\ ScanOK'
  BY DEF ChainOK, LookOK, ScanOK
<1>8. FindOK'
  BY <1>3 DEF FindOK, Due, Ahead, TypeOK
<1>9. RecordsAreTrue'
  BY <1>3 DEF RecordsAreTrue, TypeOK
<1>. QED
  BY <1>4, <1>5, <1>6, <1>7, <1>8, <1>9

LEMMA FundBroadcastSavedOK ==
    ASSUME IInv, NEW d \in Dlcs, FundBroadcastSaved(d)
    PROVE  IInv'
<1>1. d \in list
  BY DEF FundBroadcastSaved, IInv, ListOK
<1>. QED
  BY <1>1, ResaveOK DEF FundBroadcastSaved

LEMMA UpdateCloseBroadcastOK ==
    ASSUME IInv, NEW d \in Dlcs, UpdateCloseBroadcast(d)
    PROVE  IInv'
BY ResaveOK DEF UpdateCloseBroadcast

-----------------------------------------------------------------------------
LEMMA ValidatedOK == ASSUME IInv, Validated PROVE IInv'
<1>. USE DEF Validated, IInv, chain, history
<1>1. TypeOK'
  BY DEF TypeOK
<1>2. ListOK' /\ MemOK' /\ ChainOK' /\ LookOK' /\ RecordsAreTrue'
  BY DEF ListOK, MemOK, ChainOK, LookOK, RecordsAreTrue
<1>3. ScanOK'
  BY ChainAssumption DEF ScanOK, TypeOK, Heights, ListOK
<1>4. FindOK'
  BY TxInTxs, ChainAssumption DEF FindOK, Due, Ahead, ListOK, ScanOK, TypeOK, Heights, Unknown
<1>. QED
  BY <1>1, <1>2, <1>3, <1>4

LEMMA ReadBlockOK == ASSUME IInv, ReadBlock PROVE IInv'
<1>. USE DEF ReadBlock, IInv, chain, history
<1>1. blockHeight + 1 \in Heights
  BY ChainAssumption DEF ScanOK, TypeOK, Heights
<1>2. TypeOK'
  BY <1>1 DEF TypeOK
<1>3. ListOK' /\ MemOK' /\ ChainOK' /\ LookOK' /\ RecordsAreTrue'
  BY DEF ListOK, MemOK, ChainOK, LookOK, RecordsAreTrue
<1>4. ScanOK'
  BY ChainAssumption DEF ScanOK, TypeOK, Heights
<1>5. FindOK'
  BY TxInTxs, ChainAssumption DEF FindOK, Due, Ahead, ListOK, TypeOK, Heights, Unknown
<1>. QED
  BY <1>2, <1>3, <1>4, <1>5
LEMMA CheckTxOK ==
    ASSUME IInv, NEW t \in Txs, CheckTx(t)
    PROVE  IInv'
<1>. USE DEF CheckTx, IInv, chain, history
<1>1. t = Tx(t.kind, t.dlc) /\ t.dlc \in Dlcs /\ at[t] = blockHeight
  BY TxWhole DEF ScanOK
<1>2. CASE ~Matches(t)
  <2>1. TypeOK'
    BY <1>2 DEF TypeOK
  <2>2. ListOK' /\ MemOK' /\ ChainOK' /\ LookOK' /\ ScanOK' /\ RecordsAreTrue'
    BY <1>2 DEF ListOK, MemOK, ChainOK, LookOK, ScanOK, RecordsAreTrue
  <2>3. \A d \in list : d \in verify => Tx("close", d) # t
    BY <1>2, TxParts DEF Matches, TypeOK
  <2>4. FindOK'
    BY <1>2, <2>3 DEF FindOK, Due, Ahead, ListOK
  <2>. QED
    BY <2>1, <2>2, <2>4
<1>3. CASE Matches(t)
  <2>. DEFINE d == t.dlc
              r == [mem[d] EXCEPT !.close = blockHeight, !.type = CloseType(t)]
  <2>1. d \in list /\ d \in Dlcs
    BY <1>1, <1>3 DEF Matches, ListOK
  <2>2. CloseType(t) \in 0..3 /\ blockHeight \in Heights
    BY DEF CloseType, TypeOK
  <2>3. /\ r \in Records /\ r.fund = mem[d].fund
        /\ r.close = blockHeight /\ r.type = CloseType(t)
    <3>1. mem[d] \in Records
      BY <2>1 DEF TypeOK
    <3>. DEFINE q == [mem[d] EXCEPT !.close = blockHeight]
    <3>2. q \in Records /\ q.fund = mem[d].fund /\ q.close = blockHeight
      BY <2>2, <3>1 DEF Records
    <3>3. r = [q EXCEPT !.type = CloseType(t)]
      OBVIOUS
    <3>. HIDE DEF q, r
    <3>. QED
      BY <2>2, <3>2, <3>3 DEF Records
  <2>4. Save(d, r)
    BY <1>3
  <2>5. /\ CloseType(t) = 1 => ClosedBy[d] \in Cets
        /\ CloseType(t) = 2 => ClosedBy[d] = Refund
    <3>1. store[d].cets \subseteq Cets
      BY <2>1 DEF TypeOK, Records
    <3>. QED
      BY <3>1 DEF CloseType, Spender
  <2>6. blockHeight \in {at[Tx("close", d)], at[Tx("change", d)]}
    BY <1>1, <1>3 DEF Matches
  <2>. HIDE DEF r
  <2>7. /\ mem' \in [Dlcs -> Records] /\ store' \in [Dlcs -> Records]
        /\ mem'[d] = r /\ store'[d] = r
        /\ \A e \in Dlcs : e # d => mem'[e] = mem[e] /\ store'[e] = store[e]
    BY <2>1, <2>3, <2>4, SaveProperties
  <2>. HIDE DEF d
  <2>8. TypeOK'
    BY <2>7 DEF TypeOK
  <2>9. ListOK'
    BY DEF ListOK
  <2>10. MemOK'
    BY <2>7 DEF MemOK, TypeOK
  <2>11. ChainOK' /\ LookOK' /\ ScanOK'
    BY DEF ChainOK, LookOK, ScanOK
  <2>12. blockHeight # 0
    BY ChainAssumption DEF ScanOK, TypeOK, Heights
  <2>13. FindOK'
    <3>1. \A e \in list : Due(e)' => Due(e) /\ e # d
      BY <2>1, <2>3, <2>7, <2>12 DEF Due, TypeOK
    <3>2. \A e \in list : e # d => Tx("close", e) # t
      BY <1>1, TxParts DEF TypeOK, d
    <3>. QED
      BY <3>1, <3>2 DEF FindOK, Ahead, ListOK
  <2>14. RecordsAreTrue'
    BY <2>1, <2>3, <2>5, <2>6, <2>7 DEF RecordsAreTrue, MemOK, TypeOK, ListOK
  <2>. QED
    BY <2>8, <2>9, <2>10, <2>11, <2>13, <2>14
<1>. QED
  BY <1>2, <1>3

LEMMA CheckTxFailsOK ==
    ASSUME IInv, NEW t \in Txs, CheckTxFails(t)
    PROVE  IInv'
<1>. USE DEF CheckTxFails, IInv, chain
<1>1. erred' \in BOOLEAN
  BY Zenon
<1>2. TypeOK'
  BY <1>1 DEF TypeOK
<1>3. ListOK' /\ MemOK' /\ ChainOK' /\ LookOK' /\ ScanOK' /\ RecordsAreTrue'
  BY DEF ListOK, MemOK, ChainOK, LookOK, ScanOK, RecordsAreTrue
<1>4. FindOK'
  BY DEF FindOK
<1>. QED
  BY <1>2, <1>3, <1>4

LEMMA BlockDoneOK == ASSUME IInv, BlockDone PROVE IInv'
<1>. USE DEF BlockDone, IInv, chain, history
<1>1. TypeOK'
  BY DEF TypeOK
<1>2. ListOK' /\ MemOK' /\ ChainOK' /\ LookOK' /\ RecordsAreTrue'
  BY DEF ListOK, MemOK, ChainOK, LookOK, RecordsAreTrue
<1>3. target \in Nat /\ tip \in Nat /\ blockHeight \in Nat
  BY ChainAssumption DEF TypeOK, Heights
<1>4. CASE target' = blockHeight
  <2>1. phase' = "synced" /\ tip = blockHeight
    BY <1>3, <1>4 DEF ScanOK
  <2>2. ScanOK'
    BY <2>1 DEF ScanOK
  <2>3. FindOK'
    BY <2>1, <1>3, TxInTxs, ChainAssumption
       DEF FindOK, Due, Ahead, ListOK, ScanOK, TypeOK, Heights, Unknown
  <2>. QED
    BY <1>1, <1>2, <2>2, <2>3
<1>5. CASE target' # blockHeight
  <2>1. phase' = "scan"
    BY <1>5
  <2>2. ScanOK'
    BY <2>1, <1>3, <1>5, ChainAssumption DEF ScanOK, TypeOK, Heights
  <2>3. FindOK'
    BY <2>1 DEF FindOK, Due, Ahead, ListOK
  <2>. QED
    BY <1>1, <1>2, <2>2, <2>3
<1>. QED
  BY <1>4, <1>5

LEMMA CrashOK == ASSUME IInv, Crash PROVE IInv'
<1>. USE DEF Crash, IInv, chain
<1>1. erred' \in BOOLEAN
  BY Zenon
<1>2. 0 \in Heights /\ 0 <= tip
  BY ChainAssumption DEF TypeOK, Heights
<1>3. TypeOK'
  BY <1>1, <1>2, BlankOK DEF TypeOK
<1>4. ListOK' /\ MemOK' /\ ChainOK' /\ LookOK' /\ RecordsAreTrue'
  BY DEF ListOK, MemOK, ChainOK, LookOK, RecordsAreTrue
<1>5. ScanOK' /\ FindOK'
  BY <1>2 DEF ScanOK, FindOK
<1>. QED
  BY <1>3, <1>4, <1>5

LEMMA StutterOK == ASSUME IInv, UNCHANGED vars PROVE IInv'
BY ZenonT(60) DEF vars, chain, scan, history, IInv, TypeOK, ListOK, MemOK, ChainOK, LookOK, ScanOK,
             FindOK, Due, Ahead, RecordsAreTrue

LEMMA NextOK == IInv /\ [Next]_vars => IInv'
<1>. SUFFICES ASSUME IInv, [Next]_vars PROVE IInv'
  OBVIOUS
<1>1. CASE \E t \in Txs : Broadcast(t)
  BY <1>1, BroadcastOK
<1>2. CASE \E block \in SUBSET Txs : Mine(block)
  BY <1>2, MineOK
<1>3. CASE \E d \in Dlcs : SaveDlc(d) \/ FundBroadcastSaved(d) \/ UpdateCloseBroadcast(d)
  BY <1>3, SaveDlcOK, FundBroadcastSavedOK, UpdateCloseBroadcastOK
<1>4. CASE \E h \in StartHeights : Start(h)
  BY <1>4, StartOK
<1>5. CASE \E d \in Dlcs : \/ GetUtxo(d) \/ GetTransactionFails(d)
                           \/ FoundSpent(d) \/ FoundUnconfirmed(d) \/ FoundConfirmed(d)
  BY <1>5, GetUtxoOK, GetTransactionFailsOK, FoundSpentOK, FoundUnconfirmedOK, FoundConfirmedOK
<1>6. CASE Validated \/ ReadBlock \/ BlockDone
  BY <1>6, ValidatedOK, ReadBlockOK, BlockDoneOK
<1>7. CASE \E t \in Txs : CheckTx(t) \/ CheckTxFails(t)
  BY <1>7, CheckTxOK, CheckTxFailsOK
<1>8. CASE Crash
  BY <1>8, CrashOK
<1>9. CASE UNCHANGED vars
  BY <1>9, StutterOK
<1>. QED
  BY <1>1, <1>2, <1>3, <1>4, <1>5, <1>6, <1>7, <1>8, <1>9 DEF Next, Manager

(* The inductive invariant.                                                *)
THEOREM ChainInvariant == Spec => []IInv
BY InitOK, NextOK, PTL DEF Spec

(* Every field keeps its type; no height runs beyond the chain.            *)
THEOREM ChainTypeCorrect == Spec => []TypeOK
<1>1. IInv => TypeOK
  BY DEF IInv
<1>. QED
  BY <1>1, ChainInvariant, PTL

(* What is recorded is true, however the manager crashed.                  *)
THEOREM WhatIsRecordedIsTrue == Spec => []RecordsAreTrue
<1>1. IInv => RecordsAreTrue
  BY DEF IInv
<1>. QED
  BY <1>1, ChainInvariant, PTL

(* Nothing above the height that start() resumes from is overlooked.       *)
THEOREM NothingAboveIsMissed == Spec => []ResumeFindsAll
<1>1. IInv => ResumeFindsAll
  <2>. SUFFICES ASSUME IInv, phase = "synced", from # 0, ~erred, NEW d \in list,
                       at[Tx("close", d)] \in (from + 1)..startTip, store[d].close = 0
                PROVE  FALSE
    BY Zenon DEF ResumeFindsAll
  <2>1. Ahead(d)
    BY DEF IInv, FindOK, Due
  <2>. QED
    BY <2>1 DEF Ahead, IInv, ListOK
<1>. QED
  BY <1>1, ChainInvariant, PTL

(* A close once settled is never looked for again, nor is its record lost. *)
THEOREM SettledForever == Spec => SettledCloseStays
<1>. DEFINE Stays == \A d \in saved :
                store[d].close # 0 /\ d \notin verify =>
                    d \notin verify' /\ store'[d].close = store[d].close
<1>1. ASSUME IInv, [Next]_vars PROVE [Stays]_vars
  <2>. SUFFICES ASSUME Next, NEW d \in saved, store[d].close # 0, d \notin verify
                PROVE  d \notin verify' /\ store'[d].close = store[d].close
    BY <1>1
  <2>. USE <1>1 DEF IInv, chain, scan, history
  <2>0. d \in Dlcs
    BY DEF TypeOK
  <2>1. ASSUME NEW e \in Dlcs, NEW r \in Records, Save(e, r), e # d \/ r.close = store[d].close
        PROVE  store'[d].close = store[d].close
    BY <2>0, <2>1, SaveProperties
  <2>2. CASE \E t \in Txs : Broadcast(t)
    BY <2>2 DEF Broadcast
  <2>3. CASE \E block \in SUBSET Txs : Mine(block)
    BY <2>3 DEF Mine
  <2>4. CASE \E e \in Dlcs : SaveDlc(e)
    BY <2>4 DEF SaveDlc, TypeOK
  <2>5. CASE \E e \in Dlcs : FundBroadcastSaved(e) \/ UpdateCloseBroadcast(e)
    <3>1. PICK e \in Dlcs : FundBroadcastSaved(e) \/ UpdateCloseBroadcast(e)
      BY <2>5
    <3>2. e \in list /\ Save(e, mem[e]) /\ verify' = verify /\ mem[e] \in Records
      BY <3>1 DEF FundBroadcastSaved, UpdateCloseBroadcast, ListOK, TypeOK
    <3>. QED
      BY <3>2, <2>1 DEF MemOK
  <2>6. CASE \E h \in StartHeights : Start(h)
    BY <2>6 DEF Start
  <2>7. CASE \E e \in Dlcs : GetUtxo(e) \/ GetTransactionFails(e) \/ FoundUnconfirmed(e)
    BY <2>7 DEF GetUtxo, GetTransactionFails, FoundUnconfirmed
  <2>8. CASE \E e \in Dlcs : FoundSpent(e)
    BY <2>8 DEF FoundSpent, Got, ListOK
  <2>9. CASE \E e \in Dlcs : FoundConfirmed(e)
    <3>1. PICK e \in Dlcs : FoundConfirmed(e)
      BY <2>9
    <3>2. e # d
      BY <3>1 DEF FoundConfirmed, Got, ListOK
    <3>. QED
      BY <2>0, <3>1, <3>2 DEF FoundConfirmed, Save, TypeOK
  <2>10. CASE Validated \/ ReadBlock \/ BlockDone \/ Crash
    BY <2>10 DEF Validated, ReadBlock, BlockDone, Crash
  <2>11. CASE \E t \in Txs : CheckTx(t)
    <3>1. PICK t \in Txs : CheckTx(t)
      BY <2>11
    <3>2. Matches(t) => t.dlc # d
      BY DEF Matches
    <3>. QED
      BY <2>0, <3>1, <3>2 DEF CheckTx, Save, TypeOK
  <2>12. CASE \E t \in Txs : CheckTxFails(t)
    BY <2>12 DEF CheckTxFails
  <2>. QED
    BY <2>2, <2>3, <2>4, <2>5, <2>6, <2>7, <2>8, <2>9, <2>10, <2>11, <2>12, Zenon
       DEF Next, Manager
<1>. QED
  BY <1>1, ChainInvariant, PTL DEF Spec, SettledCloseStays
=============================================================================
