------------------------------ MODULE KeyVault ------------------------------
(***************************************************************************)
(* The licence-key vault (apps/api/src/vault/vault.service.ts), one action *)
(* per statement that changes a LicenseKey row.  The vault keeps no memory *)
(* between statements, so callers hold what they read and pass it back;    *)
(* here every statement may be issued at any moment with any argument,     *)
(* which covers every stale one.  A key is identified with its plaintext   *)
(* (its fingerprint); all keys belong to one variant.                      *)
(***************************************************************************)
CONSTANTS Key,        \* licence keys that may ever exist
          Line,       \* order lines
          NoLine,     \* "orderItemId is null"
          Perishable  \* keys imported with an activation deadline

ASSUME VaultAssumption == NoLine \notin Line /\ Perishable \subseteq Key

VARIABLES keyState,    \* keyState[k]: LicenseKey.state, "ABSENT" before the row
          keyLine,     \* keyLine[k]: LicenseKey.orderItemId
          keySent,     \* keySent[k]: LicenseKey.deliveredAt is set
          lapsed       \* keys whose expiresAt has passed

vaultVars == <<keyState, keyLine, keySent, lapsed>>

KeyStates ==
  {"ABSENT", "AVAILABLE", "ASSIGNED", "DELIVERED", "REVOKED", "EXPIRED"}

VaultTypeOK == /\ keyState \in [Key -> KeyStates]
               /\ keyLine \in [Key -> Line \cup {NoLine}]
               /\ keySent \in [Key -> BOOLEAN]
               /\ lapsed \subseteq Perishable

VaultInit == /\ keyState = [k \in Key |-> "ABSENT"]
             /\ keyLine = [k \in Key |-> NoLine]
             /\ keySent = [k \in Key |-> FALSE]
             /\ lapsed = {}

-----------------------------------------------------------------------------
\* isBound, and the first read of assign: any state counts, REVOKED included.
IsBound(l) == \E k \in Key : keyLine[k] = l

\* What availability counts and assign offers: in stock, unsold, not past its date.
Offerable == {k \in Key : /\ keyState[k] = "AVAILABLE"
                          /\ keyLine[k] = NoLine
                          /\ k \notin lapsed}

\* The condition of assign's claiming updateMany; it does not ask the date again.
StillFree(k) == keyState[k] = "AVAILABLE" /\ keyLine[k] = NoLine

-----------------------------------------------------------------------------
\* Mutant: the row is created in the state meant for a cart's key.
ImportKey_Reserved(k) ==
  /\ keyState[k] = "ABSENT"
  /\ keyState' = [keyState EXCEPT ![k] = "RESERVED"]
  /\ UNCHANGED <<keyLine, keySent, lapsed>>

\* importKeys, one row: a fingerprint the vault already holds is skipped, and
\* the unique index refuses one that another import stored in between.
ImportKey(k) ==
  /\ keyState[k] = "ABSENT"
  /\ keyState' = [keyState EXCEPT ![k] = "AVAILABLE"]
  /\ UNCHANGED <<keyLine, keySent, lapsed>>

\* Mutant: the write is not conditional on the key being free.
ClaimKey_Unconditional(k, l) ==
  /\ ~IsBound(l)
  /\ keyState' = [keyState EXCEPT ![k] = "ASSIGNED"]
  /\ keyLine' = [keyLine EXCEPT ![k] = l]
  /\ UNCHANGED <<keySent, lapsed>>

\* Mutant: the line is written and the state forgotten.
ClaimKey_StateForgotten(k, l) ==
  /\ StillFree(k)
  /\ ~IsBound(l)
  /\ keyLine' = [keyLine EXCEPT ![k] = l]
  /\ UNCHANGED <<keyState, keySent, lapsed>>

\* assign, the claiming write.  orderItemId is unique: a line that meanwhile
\* got another key makes the statement fail instead (no state change).
ClaimKey(k, l) ==
  /\ StillFree(k)
  /\ ~IsBound(l)
  /\ keyState' = [keyState EXCEPT ![k] = "ASSIGNED"]
  /\ keyLine' = [keyLine EXCEPT ![k] = l]
  /\ UNCHANGED <<keySent, lapsed>>

\* fulfilManually: a code bought for this line, stored already bound to it.
\* Refused when the line has a key or the code is already in the vault.
StoreForLine(k, l) ==
  /\ keyState[k] = "ABSENT"
  /\ ~IsBound(l)
  /\ keyState' = [keyState EXCEPT ![k] = "ASSIGNED"]
  /\ keyLine' = [keyLine EXCEPT ![k] = l]
  /\ UNCHANGED <<keySent, lapsed>>

\* The keys markDelivered writes: bound to the line and never stamped, whatever
\* their state.
Unstamped(l) == {k \in Key : keyLine[k] = l /\ ~keySent[k]}

MarkDelivered(l) ==
  LET now == Unstamped(l) IN
  /\ keyState' = [k \in Key |-> IF k \in now THEN "DELIVERED" ELSE keyState[k]]
  /\ keySent' = [k \in Key |-> keySent[k] \/ k \in now]
  /\ UNCHANGED <<keyLine, lapsed>>

\* revoke: compare-and-set on the state just read; a second revoke is refused.
\* The key keeps its line.
RevokeKey(k) ==
  /\ keyState[k] \notin {"ABSENT", "REVOKED"}
  /\ keyState' = [keyState EXCEPT ![k] = "REVOKED"]
  /\ UNCHANGED <<keyLine, keySent, lapsed>>

\* replaceKey: the new key goes in first; the old one is withdrawn afterwards,
\* and only if it is still unsold stock (onlyIfAvailable).
RevokeUnsold(k) == keyState[k] = "AVAILABLE" /\ RevokeKey(k)

\* expireStale: every unsold key past its date leaves the stock at once.
ExpireStale ==
  LET stale == {k \in lapsed : keyState[k] = "AVAILABLE"} IN
  /\ stale # {}
  /\ keyState' = [k \in Key |-> IF k \in stale THEN "EXPIRED" ELSE keyState[k]]
  /\ UNCHANGED <<keyLine, keySent, lapsed>>

\* Time passes the activation deadline of a key.
Lapse(k) ==
  /\ k \in Perishable \ lapsed
  /\ lapsed' = lapsed \cup {k}
  /\ UNCHANGED <<keyState, keyLine, keySent>>

-----------------------------------------------------------------------------
VaultNext ==
  \/ \E k \in Key : \/ ImportKey(k)
                    \/ RevokeKey(k)
                    \/ RevokeUnsold(k)
                    \/ Lapse(k)
                    \/ \E l \in Line : ClaimKey(k, l) \/ StoreForLine(k, l)
  \/ \E l \in Line : MarkDelivered(l)
  \/ ExpireStale

VaultSpec == VaultInit /\ [][VaultNext]_vaultVars

-----------------------------------------------------------------------------
\* A line holds at most one key, so a customer is never sent somebody else's
\* and a key is never spent twice on one line: two concurrent assigns that both
\* read "nothing bound" must not both bind.
OneKeyPerLine ==
  \A j, k \in Key : keyLine[j] = keyLine[k] /\ keyLine[j] # NoLine => j = k

\* A key out of the stock count never comes back to it: whatever revoke,
\* expiry, assignment and delivery do, in any order, AVAILABLE is entered once.
OnlyImportStocks ==
  [][\A k \in Key : keyState[k] # "AVAILABLE" /\ keyState'[k] = "AVAILABLE"
                      => keyState[k] = "ABSENT"]_vaultVars

\* An unsold key carries no order: stock that is offered to a new buyer was
\* never bound, sent or withdrawn.
StockIsUntouched ==
  \A k \in Key : keyState[k] \in {"ABSENT", "AVAILABLE", "EXPIRED"}
                   => keyLine[k] = NoLine /\ ~keySent[k]

\* The vault keeps the promise of the ledger.
Ledger == INSTANCE KeyLedger WITH
            known <- {k \in Key : keyState[k] # "ABSENT"},
            owner <- keyLine
SoldAtMostOnce == Ledger!Spec
=============================================================================
