--------------------------- MODULE KeyVault_proofs ---------------------------
(***************************************************************************)
(* Proofs about the vault, for any number of keys and lines.               *)
(***************************************************************************)
EXTENDS KeyVault, TLAPS

\* The rows of the vault keep their shape whatever statements are issued.
THEOREM VaultTyping == VaultSpec => []VaultTypeOK
<1>1. VaultInit => VaultTypeOK
  BY DEF VaultInit, VaultTypeOK, KeyStates
<1>2. VaultTypeOK /\ [VaultNext]_vaultVars => VaultTypeOK'
  <2> SUFFICES ASSUME VaultTypeOK, [VaultNext]_vaultVars PROVE VaultTypeOK'
    OBVIOUS
  <2> USE DEF VaultTypeOK, KeyStates
  <2>1. ASSUME NEW k \in Key, ImportKey(k) PROVE VaultTypeOK'
    BY <2>1 DEF ImportKey
  <2>2. ASSUME NEW k \in Key, RevokeKey(k) PROVE VaultTypeOK'
    BY <2>2 DEF RevokeKey
  <2>3. ASSUME NEW k \in Key, RevokeUnsold(k) PROVE VaultTypeOK'
    BY <2>2, <2>3 DEF RevokeUnsold
  <2>4. ASSUME NEW k \in Key, Lapse(k) PROVE VaultTypeOK'
    BY <2>4 DEF Lapse
  <2>5. ASSUME NEW k \in Key, NEW l \in Line, ClaimKey(k, l) PROVE VaultTypeOK'
    BY <2>5 DEF ClaimKey
  <2>6. ASSUME NEW k \in Key, NEW l \in Line, StoreForLine(k, l) PROVE VaultTypeOK'
    BY <2>6 DEF StoreForLine
  <2>7. ASSUME NEW l \in Line, MarkDelivered(l) PROVE VaultTypeOK'
    BY <2>7 DEF MarkDelivered
  <2>8. CASE ExpireStale
    BY <2>8 DEF ExpireStale
  <2>9. CASE UNCHANGED vaultVars
    BY <2>9 DEF vaultVars
  <2> QED
    BY <2>1, <2>2, <2>3, <2>4, <2>5, <2>6, <2>7, <2>8, <2>9 DEF VaultNext
<1> QED
  BY <1>1, <1>2, PTL DEF VaultSpec

\* A key still in stock, never imported or expired unsold was never bound to a
\* line nor stamped delivered.
THEOREM VaultStockIsUntouched == VaultSpec => []StockIsUntouched
<1>1. VaultInit => StockIsUntouched
  BY DEF VaultInit, StockIsUntouched
<1>2. VaultTypeOK /\ StockIsUntouched /\ [VaultNext]_vaultVars => StockIsUntouched'
  <2> SUFFICES ASSUME VaultTypeOK, StockIsUntouched, [VaultNext]_vaultVars
               PROVE StockIsUntouched'
    OBVIOUS
  <2> USE DEF VaultTypeOK, StockIsUntouched
  <2>1. ASSUME NEW k \in Key, ImportKey(k) PROVE StockIsUntouched'
    BY <2>1 DEF ImportKey
  <2>2. ASSUME NEW k \in Key, RevokeKey(k) PROVE StockIsUntouched'
    BY <2>2 DEF RevokeKey
  <2>3. ASSUME NEW k \in Key, RevokeUnsold(k) PROVE StockIsUntouched'
    BY <2>2, <2>3 DEF RevokeUnsold
  <2>4. ASSUME NEW k \in Key, Lapse(k) PROVE StockIsUntouched'
    BY <2>4 DEF Lapse
  <2>5. ASSUME NEW k \in Key, NEW l \in Line, ClaimKey(k, l) PROVE StockIsUntouched'
    BY <2>5 DEF ClaimKey
  <2>6. ASSUME NEW k \in Key, NEW l \in Line, StoreForLine(k, l) PROVE StockIsUntouched'
    BY <2>6 DEF StoreForLine
  <2>7. ASSUME NEW l \in Line, MarkDelivered(l) PROVE StockIsUntouched'
    BY <2>7, VaultAssumption DEF MarkDelivered, Unstamped
  <2>8. CASE ExpireStale
    BY <2>8 DEF ExpireStale
  <2>9. CASE UNCHANGED vaultVars
    BY <2>9 DEF vaultVars
  <2> QED
    BY <2>1, <2>2, <2>3, <2>4, <2>5, <2>6, <2>7, <2>8, <2>9 DEF VaultNext
<1> QED
  BY <1>1, <1>2, VaultTyping, PTL DEF VaultSpec

\* Stock is entered by import alone: nothing withdrawn, sold or lapsed comes back.
THEOREM VaultOnlyImportStocks == VaultSpec => OnlyImportStocks
<1> DEFINE A == \A k \in Key : keyState[k] # "AVAILABLE" /\ keyState'[k] = "AVAILABLE"
                                => keyState[k] = "ABSENT"
<1>1. VaultTypeOK /\ [VaultNext]_vaultVars => [A]_vaultVars
  <2> SUFFICES ASSUME VaultTypeOK, VaultNext PROVE A
    OBVIOUS
  <2> USE DEF VaultTypeOK
  <2>1. ASSUME NEW k \in Key, ImportKey(k) PROVE A
    BY <2>1 DEF ImportKey
  <2>2. ASSUME NEW k \in Key, RevokeKey(k) \/ RevokeUnsold(k) \/ Lapse(k) PROVE A
    BY <2>2 DEF RevokeKey, RevokeUnsold, Lapse
  <2>3. ASSUME NEW k \in Key, NEW l \in Line, ClaimKey(k, l) \/ StoreForLine(k, l) PROVE A
    BY <2>3 DEF ClaimKey, StoreForLine
  <2>4. ASSUME NEW l \in Line, MarkDelivered(l) PROVE A
    BY <2>4 DEF MarkDelivered
  <2>5. CASE ExpireStale
    BY <2>5 DEF ExpireStale
  <2> QED
    BY <2>1, <2>2, <2>3, <2>4, <2>5 DEF VaultNext
<1> QED
  BY <1>1, VaultTyping, PTL DEF VaultSpec, OnlyImportStocks

\* No line ever holds two keys.
THEOREM VaultOneKeyPerLine == VaultSpec => []OneKeyPerLine
<1>1. VaultInit => OneKeyPerLine
  BY DEF VaultInit, OneKeyPerLine
<1>2. VaultTypeOK /\ OneKeyPerLine /\ [VaultNext]_vaultVars => OneKeyPerLine'
  <2> SUFFICES ASSUME VaultTypeOK, OneKeyPerLine, [VaultNext]_vaultVars
               PROVE OneKeyPerLine'
    OBVIOUS
  <2> USE DEF VaultTypeOK, OneKeyPerLine
  <2>1. ASSUME NEW k \in Key, NEW l \in Line, ClaimKey(k, l) PROVE OneKeyPerLine'
    BY <2>1 DEF ClaimKey, IsBound
  <2>2. ASSUME NEW k \in Key, NEW l \in Line, StoreForLine(k, l) PROVE OneKeyPerLine'
    BY <2>2 DEF StoreForLine, IsBound
  <2>3. CASE UNCHANGED keyLine
    BY <2>3
  <2> QED
    BY <2>1, <2>2, <2>3 DEF VaultNext, ImportKey, RevokeKey, RevokeUnsold, Lapse,
       MarkDelivered, ExpireStale, vaultVars
<1> QED
  BY <1>1, <1>2, VaultTyping, PTL DEF VaultSpec

\* The vault implements the ledger: a key is sold to one line, once, for ever.
THEOREM VaultSellsOnce == VaultSpec => SoldAtMostOnce
<1> DEFINE known == {k \in Key : keyState[k] # "ABSENT"}
<1>1. VaultInit => Ledger!Init
  BY DEF VaultInit, Ledger!Init
<1>2. VaultTypeOK /\ StockIsUntouched /\ [VaultNext]_vaultVars => [Ledger!Next]_(Ledger!ledgerVars)
  <2> SUFFICES ASSUME VaultTypeOK, StockIsUntouched, [VaultNext]_vaultVars
               PROVE [Ledger!Next]_(Ledger!ledgerVars)
    OBVIOUS
  <2> USE DEF VaultTypeOK, KeyStates
  <2>1. ASSUME NEW k \in Key, ImportKey(k) PROVE Ledger!Learn(k)
    BY <2>1 DEF ImportKey, Ledger!Learn
  <2>2. ASSUME NEW k \in Key, NEW l \in Line, ClaimKey(k, l) PROVE Ledger!Sell(k, l)
    BY <2>2 DEF ClaimKey, StillFree, IsBound, Ledger!Sell, Ledger!Unsold
  <2>3. ASSUME NEW k \in Key, NEW l \in Line, StoreForLine(k, l) PROVE Ledger!Sell(k, l)
    BY <2>3 DEF StoreForLine, StockIsUntouched, IsBound, Ledger!Sell, Ledger!Unsold
  <2>4. ASSUME NEW k \in Key, RevokeKey(k) PROVE UNCHANGED <<known, keyLine>>
    BY <2>4 DEF RevokeKey
  <2>5. ASSUME NEW k \in Key, RevokeUnsold(k) PROVE UNCHANGED <<known, keyLine>>
    BY <2>4, <2>5 DEF RevokeUnsold
  <2>6. ASSUME NEW k \in Key, Lapse(k) PROVE UNCHANGED <<known, keyLine>>
    BY <2>6 DEF Lapse
  <2>7. ASSUME NEW l \in Line, MarkDelivered(l) PROVE UNCHANGED <<known, keyLine>>
    BY <2>7, VaultAssumption DEF MarkDelivered, Unstamped, StockIsUntouched
  <2>8. CASE ExpireStale
    <3>1. UNCHANGED <<known, keyLine>>
      BY <2>8 DEF ExpireStale
    <3> QED BY <3>1 DEF Ledger!ledgerVars
  <2>9. CASE UNCHANGED vaultVars
    BY <2>9 DEF vaultVars, Ledger!ledgerVars
  <2> QED
    BY <2>1, <2>2, <2>3, <2>4, <2>5, <2>6, <2>7, <2>8, <2>9
    DEF VaultNext, Ledger!Next, Ledger!ledgerVars
<1> QED
  BY <1>1, <1>2, VaultTyping, VaultStockIsUntouched, PTL
  DEF VaultSpec, SoldAtMostOnce, Ledger!Spec
=============================================================================
