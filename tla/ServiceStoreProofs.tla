------------------------- MODULE ServiceStoreProofs -------------------------
(***************************************************************************)
(* Proofs about the tables of the service store, for any principals,       *)
(* digests, token_ids and validity windows, whatever rows an older version *)
(* left, and any policies, runs, reservation ids, units and division of    *)
(* the time into days and months.  All are statements about                *)
(* ServiceStoreSpec, whose steps are those of the tokens, of the call      *)
(* tables and of the principals.                                           *)
(*                                                                         *)
(* The first part is about the bearer tokens.  Every operation on them     *)
(* moves rows: it retires some, deletes them, and adds at most one.        *)
(* RowsMove proves once what such a move preserves.  The second part is    *)
(* about policies, bindings and reservations, the third about the budget,  *)
(* the fourth about the contract of the call gate (CallLeases).            *)
(***************************************************************************)
EXTENDS ServiceStore, FiniteSums

(* What verifies a token now has no tombstone.                             *)
RowsNotRetired == \A r \in rows : ~_token_is_retired(r.digest)

(* Revoked rows are an older version's and are gone once the store opened. *)
LegacyGone == opened => \A r \in rows : ~r.revoked

(* A digest that stopped verifying left its tombstone, or is in a row of   *)
(* an older version that still waits for the migration.                    *)
DroppedKnown ==
  \A d \in dropped :
    _token_is_retired(d) \/ \E r \in rows : r.digest = d /\ r.revoked

(* The row or the tombstone of a digest names the one principal it was     *)
(* ever stored for; a digest with neither was never stored.                *)
OwnerKnown ==
  /\ \A r \in rows : owners[r.digest] = {r.principal}
  /\ \A t \in tombstones : owners[t.digest] = {t.principal}
  /\ \A d \in Digest :
       d \notin Digests(rows) /\ ~_token_is_retired(d) => owners[d] = {}

AdmittedLive == \A r \in rows : ~r.revoked => r.digest \in admitted[r.principal]

TokenInv ==
  /\ BearerTypeOK /\ RowsNotRetired /\ LegacyGone /\ DroppedKnown
  /\ OwnerKnown /\ AdmittedLive

----------------------------------------------------------------------------

(* A tombstone of one row.                                                 *)
StoneOf(r, reason) ==
  [digest |-> r.digest, principal |-> r.principal, token_id |-> r.token_id,
   reason |-> reason]

(* Retiring rows that are in the table adds one tombstone for each: none   *)
(* of their digests had one.                                               *)
LEMMA RetireAdds ==
  ASSUME TokenInv, NEW rs \in SUBSET rows, NEW reason
  PROVE  _retire_token_row(rs, reason)
           = tombstones \cup {StoneOf(r, reason) : r \in rs}
  <1>1. {x \in rs : ~_token_is_retired(x.digest)} = rs
    BY DEF TokenInv, RowsNotRetired
  <1> QED BY <1>1 DEF _retire_token_row, StoneOf

(* A move of rows: rs is retired and deleted, and at most one row, which   *)
(* was never retired and clashes with nothing, is inserted.                *)
Move(rs, added, reason) ==
  /\ rs \in SUBSET rows /\ added \in SUBSET Row /\ reason \in {"revoked", "rotated"}
  /\ \A r, s \in added : r = s
  /\ \A r \in added : /\ ~r.revoked /\ ~_token_is_retired(r.digest)
                       /\ r.digest \notin Digests(rows)
                       /\ \A s \in rows \ rs : s.token_id # r.token_id
  /\ rows' = (rows \ rs) \cup added
  /\ tombstones' = _retire_token_row(rs, reason)
  /\ dropped' \subseteq dropped \cup Digests(rs)
  /\ \A d \in Digest :
       owners'[d] = owners[d] \cup {r.principal : r \in {x \in added : x.digest = d}}

(* The part of the invariant that every move preserves in the same way.    *)
TablesAgree ==
  /\ rows \subseteq Row /\ tombstones \subseteq Tombstone
  /\ \A r, s \in rows : r.digest = s.digest \/ r.token_id = s.token_id => r = s
  /\ \A t, u \in tombstones : t.digest = u.digest => t = u
  /\ RowsNotRetired /\ DroppedKnown /\ OwnerKnown

(* What a move preserves.                                                  *)
LEMMA RowsMove ==
  ASSUME TokenInv, NEW rs, NEW added, NEW reason, Move(rs, added, reason)
  PROVE  TablesAgree'
  <1> USE DEF Move
  <1>1. tombstones' = tombstones \cup {StoneOf(r, reason) : r \in rs}
    BY RetireAdds
  <1>2. \A r \in rs : /\ StoneOf(r, reason) \in tombstones'
                      /\ StoneOf(r, reason).digest = r.digest
                      /\ StoneOf(r, reason).principal = r.principal
    BY <1>1 DEF StoneOf
  <1>3. \A t \in tombstones' : t \in tombstones \/ \E r \in rs : t = StoneOf(r, reason)
    BY <1>1
  <1>4. \A r \in rows : r \in Row
    BY DEF TokenInv, BearerTypeOK
  <1>5. \A r, s \in rows : r.digest = s.digest => r = s
    BY DEF TokenInv, BearerTypeOK
  <1>6. \A d : _token_is_retired(d)' <=>
                 _token_is_retired(d) \/ \E r \in rs : r.digest = d
    BY <1>1, <1>2, <1>3 DEF _token_is_retired
  <1>7. rows' \subseteq Row
    BY <1>4
  <1>8. tombstones' \subseteq Tombstone
    <2>1. \A r \in rs : StoneOf(r, reason) \in Tombstone
      BY <1>4 DEF StoneOf, Tombstone, Row
    <2> QED BY <2>1, <1>3 DEF TokenInv, BearerTypeOK
  <1>9. \A r, s \in rows' : r.digest = s.digest \/ r.token_id = s.token_id => r = s
    <2> SUFFICES ASSUME NEW r \in rows', NEW s \in rows',
                        r.digest = s.digest \/ r.token_id = s.token_id
                 PROVE  r = s
      OBVIOUS
    <2>1. CASE r \in rows \ rs /\ s \in rows \ rs
      BY <2>1 DEF TokenInv, BearerTypeOK
    <2>2. CASE r \in added /\ s \in added
      BY <2>2
    <2>3. \A x \in added, y \in rows \ rs :
            x.digest # y.digest /\ x.token_id # y.token_id
      BY DEF Digests
    <2> QED BY <2>1, <2>2, <2>3
  <1>10. \A t, u \in tombstones' : t.digest = u.digest => t = u
    <2>1. \A t \in tombstones, r \in rs : t.digest # r.digest
      BY DEF TokenInv, RowsNotRetired, _token_is_retired
    <2>2. \A t, u \in tombstones : t.digest = u.digest => t = u
      BY DEF TokenInv, BearerTypeOK
    <2> QED BY <2>1, <2>2, <1>2, <1>3, <1>5
  <1>11. RowsNotRetired'
    <2> SUFFICES ASSUME NEW r \in rows'
                 PROVE  ~_token_is_retired(r.digest)'
      BY DEF RowsNotRetired
    <2>1. CASE r \in rows \ rs
      BY <2>1, <1>5, <1>6 DEF TokenInv, RowsNotRetired
    <2>2. CASE r \in added
      BY <2>2, <1>6 DEF Digests
    <2> QED BY <2>1, <2>2
  <1>12. DroppedKnown'
    <2> SUFFICES ASSUME NEW d \in dropped'
                 PROVE  _token_is_retired(d)' \/ \E r \in rows' : r.digest = d /\ r.revoked
      BY DEF DroppedKnown
    <2>1. CASE d \in dropped
      BY <2>1, <1>6 DEF TokenInv, DroppedKnown
    <2>2. CASE d \in Digests(rs)
      BY <2>2, <1>6 DEF Digests
    <2> QED BY <2>1, <2>2
  <1>13. OwnerKnown'
    <2>0. ASSUME NEW d \in Digest, \A x \in added : x.digest # d
          PROVE  owners'[d] = owners[d]
      <3>1. {r.principal : r \in {x \in added : x.digest = d}} = {}
        BY <2>0
      <3> QED BY <3>1
    <2>1. \A r \in rows : owners'[r.digest] = owners[r.digest]
      BY <1>4, <2>0 DEF Digests, Row
    <2>3. \A r \in added : owners'[r.digest] = {r.principal}
      <3> SUFFICES ASSUME NEW r \in added
                   PROVE  owners'[r.digest] = {r.principal}
        OBVIOUS
      <3>1. owners[r.digest] = {}
        BY DEF TokenInv, OwnerKnown, Row
      <3>2. {x \in added : x.digest = r.digest} = {r}
        OBVIOUS
      <3>3. r.digest \in Digest
        BY DEF Row
      <3> QED BY <3>1, <3>2, <3>3
    <2>4. \A t \in tombstones : owners'[t.digest] = owners[t.digest]
      <3> SUFFICES ASSUME NEW t \in tombstones
                   PROVE  owners'[t.digest] = owners[t.digest]
        OBVIOUS
      <3>1. \A x \in added : x.digest # t.digest
        BY DEF _token_is_retired
      <3>2. t.digest \in Digest
        BY DEF TokenInv, BearerTypeOK, Tombstone
      <3> QED BY <3>1, <3>2, <2>0
    <2>5. \A r \in rows' : owners'[r.digest] = {r.principal}
      BY <2>1, <2>3 DEF TokenInv, OwnerKnown
    <2>6. \A t \in tombstones' : owners'[t.digest] = {t.principal}
      <3>1. \A r \in rs : owners'[r.digest] = {r.principal}
        BY <2>1 DEF TokenInv, OwnerKnown
      <3>2. \A t \in tombstones : owners'[t.digest] = {t.principal}
        BY <2>4 DEF TokenInv, OwnerKnown
      <3> QED BY <3>1, <3>2, <1>2, <1>3
    <2>7. ASSUME NEW d \in Digest, d \notin Digests(rows'), ~_token_is_retired(d)'
          PROVE  owners'[d] = {}
      <3>1. \A r \in rows : r.digest # d
        BY <2>7, <1>6 DEF Digests
      <3>2. owners[d] = {}
        BY <2>7, <3>1, <1>6 DEF TokenInv, OwnerKnown, Digests
      <3>3. \A x \in added : x.digest # d
        BY <2>7 DEF Digests
      <3> QED BY <2>7, <3>2, <3>3, <2>0
    <2> QED BY <2>5, <2>6, <2>7 DEF OwnerKnown, Digests
  <1> QED BY <1>7, <1>8, <1>9, <1>10, <1>11, <1>12, <1>13 DEF TablesAgree

----------------------------------------------------------------------------

(* A token stored for a principal that has no row with its digest.         *)
LEMMA PutPreserves ==
  ASSUME TokenInv, NEW i \in TokenId, NEW p \in Principal, NEW d \in Digest,
         NEW w \in Window, put_bearer_token(i, p, d, w)
  PROVE  TokenInv'
  <1> DEFINE row == NewRow(i, p, d, w)
  <1>1. /\ row \in Row /\ row.digest = d /\ row.principal = p
        /\ row.token_id = i /\ ~row.revoked
    BY DEF NewRow, Row
  <1>2. _retire_token_row({}, "revoked") = tombstones
    BY DEF _retire_token_row
  <1>3. \A e \in Digest :
          owners'[e] = owners[e] \cup
                         {r.principal : r \in {x \in {row} : x.digest = e}}
    <2> SUFFICES ASSUME NEW e \in Digest
                 PROVE  owners'[e] = owners[e] \cup
                          {r.principal : r \in {x \in {row} : x.digest = e}}
      OBVIOUS
    <2>1. owners \in [Digest -> SUBSET Principal]
      BY DEF TokenInv, BearerTypeOK
    <2>2. CASE e = d
      <3>1. {x \in {row} : x.digest = e} = {row}
        BY <2>2, <1>1
      <3>2. owners'[e] = owners[e] \cup {p}
        BY <2>1, <2>2 DEF put_bearer_token, Stored
      <3> QED BY <3>1, <3>2, <1>1
    <2>3. CASE e # d
      <3>1. {x \in {row} : x.digest = e} = {}
        BY <2>3, <1>1
      <3>2. owners'[e] = owners[e]
        BY <2>1, <2>3 DEF put_bearer_token, Stored
      <3> QED BY <3>1, <3>2
    <2> QED BY <2>2, <2>3
  <1>4. TablesAgree'
    <2>1. /\ rows' = (rows \ {}) \cup {row} /\ tombstones' = tombstones
          /\ dropped' \subseteq dropped \cup Digests({})
          /\ ~_token_is_retired(d) /\ d \notin Digests(rows)
          /\ \A r \in rows : r.token_id # i
      BY DEF put_bearer_token
    <2> HIDE DEF row
    <2>2. Move({}, {row}, "revoked")
      BY <2>1, <1>1, <1>2, <1>3 DEF Move
    <2> QED BY <2>2, RowsMove
  <1>5. BearerTypeOK'
    <2>1. admitted' \in [Principal -> SUBSET Digest]
      BY DEF put_bearer_token, TokenInv, BearerTypeOK
    <2>2. owners' \in [Digest -> SUBSET Principal]
      BY DEF put_bearer_token, Stored, TokenInv, BearerTypeOK
    <2> QED BY <2>1, <2>2, <1>4 DEF put_bearer_token, TokenInv, BearerTypeOK, TablesAgree
  <1>6. LegacyGone'
    BY <1>1 DEF put_bearer_token, TokenInv, LegacyGone
  <1>7. AdmittedLive'
    <2> SUFFICES ASSUME NEW r \in rows', ~r.revoked
                 PROVE  r.digest \in admitted'[r.principal]
      BY DEF AdmittedLive
    <2>1. /\ admitted \in [Principal -> SUBSET Digest] /\ r.principal \in Principal
          /\ admitted' = [admitted EXCEPT ![p] = @ \cup {d}]
      BY <1>4 DEF put_bearer_token, TokenInv, BearerTypeOK, Row, TablesAgree
    <2>2. r \in rows \/ (r.digest = d /\ r.principal = p)
      BY <1>1 DEF put_bearer_token
    <2>3. r \in rows => r.digest \in admitted[r.principal]
      BY DEF TokenInv, AdmittedLive
    <2> QED BY <2>1, <2>2, <2>3
  <1> QED BY <1>4, <1>5, <1>6, <1>7 DEF TokenInv, TablesAgree

(* A rotation, by an administrator or while the configured tokens are      *)
(* installed.                                                              *)
LEMMA RotatePreserves ==
  ASSUME TokenInv, opened, NEW i \in TokenId, NEW p \in Principal,
         NEW d \in Digest, NEW w \in Window, Rotated(i, p, d, w),
         installing' \subseteq installing
  PROVE  TokenInv'
  <1> DEFINE row   == NewRow(i, p, d, w)
             old   == Superseded(p, d)
             added == IF d \in Digests(rows) THEN {} ELSE {row}
  <1>1. /\ row \in Row /\ row.digest = d /\ row.principal = p
        /\ row.token_id = i /\ ~row.revoked
    BY DEF NewRow, Row
  <1>2. /\ \A r \in old : r \in rows /\ r.principal = p /\ r.digest # d
        /\ \A r \in rows \ old : r.principal = p => r.digest = d
        /\ old \in SUBSET rows
    BY DEF Superseded, RowsOf
  <1>3. /\ rows' = (rows \ old) \cup added
        /\ tombstones' = _retire_token_row(old, "rotated")
        /\ dropped' = dropped \cup Digests(old)
        /\ ~_token_is_retired(d)
        /\ \A r \in rows : r.digest = d => r.principal = p
        /\ d \in Digests(rows) \/ \A r \in rows \ RowsOf(p) : r.token_id # i
        /\ owners' = [owners EXCEPT ![d] = @ \cup {p}]
        /\ admitted' = [admitted EXCEPT ![p] = {d}]
        /\ opened' = opened
    BY DEF Rotated, MayRotate, RotateEffect, Dropped, Stored
  <1>4. \A r \in added : r = row /\ d \notin Digests(rows)
    OBVIOUS
  <1>5. \A r \in added : \A s \in rows \ old : s.token_id # r.token_id
    BY <1>1, <1>2, <1>3, <1>4 DEF Digests, RowsOf
  <1>6. \A e \in Digest :
          owners'[e] = owners[e] \cup
                         {r.principal : r \in {x \in added : x.digest = e}}
    <2> SUFFICES ASSUME NEW e \in Digest
                 PROVE  owners'[e] = owners[e] \cup
                          {r.principal : r \in {x \in added : x.digest = e}}
      OBVIOUS
    <2>1. owners \in [Digest -> SUBSET Principal]
      BY DEF TokenInv, BearerTypeOK
    <2>2. CASE e = d /\ d \in Digests(rows)
      <3>1. {x \in added : x.digest = e} = {}
        BY <2>2
      <3>2. PICK r \in rows : r.digest = d
        BY <2>2 DEF Digests
      <3>3. owners[d] = {p}
        BY <3>2, <1>3 DEF TokenInv, OwnerKnown
      <3>4. owners'[e] = owners[e] \cup {p}
        BY <2>1, <2>2, <1>3
      <3> QED BY <3>1, <3>3, <3>4, <2>2
    <2>3. CASE e = d /\ d \notin Digests(rows)
      <3>1. {x \in added : x.digest = e} = {row}
        BY <2>3, <1>1
      <3>2. owners'[e] = owners[e] \cup {p}
        BY <2>1, <2>3, <1>3
      <3> QED BY <3>1, <3>2, <1>1
    <2>4. CASE e # d
      <3>1. {x \in added : x.digest = e} = {}
        BY <2>4, <1>1
      <3>2. owners'[e] = owners[e]
        BY <2>1, <2>4, <1>3
      <3> QED BY <3>1, <3>2
    <2> QED BY <2>2, <2>3, <2>4
  <1>7. TablesAgree'
    <2>1. /\ added \in SUBSET Row
          /\ \A r, s \in added : r = s
          /\ \A r \in added : /\ ~r.revoked /\ ~_token_is_retired(r.digest)
                              /\ r.digest \notin Digests(rows)
                              /\ \A s \in rows \ old : s.token_id # r.token_id
      BY <1>1, <1>3, <1>4, <1>5
    <2> HIDE DEF row, old, added
    <2>2. Move(old, added, "rotated")
      BY <2>1, <1>2, <1>3, <1>6 DEF Move
    <2> QED BY <2>2, RowsMove
  <1>8. BearerTypeOK'
    <2>1. admitted' \in [Principal -> SUBSET Digest]
      BY <1>3 DEF TokenInv, BearerTypeOK
    <2>2. owners' \in [Digest -> SUBSET Principal]
      BY <1>3 DEF TokenInv, BearerTypeOK
    <2>3. dropped' \subseteq Digest
      BY <1>2, <1>3 DEF TokenInv, BearerTypeOK, Digests, Row
    <2> QED BY <2>1, <2>2, <2>3, <1>3, <1>7 DEF TokenInv, BearerTypeOK, TablesAgree
  <1>9. LegacyGone'
    BY <1>1, <1>3, <1>4 DEF TokenInv, LegacyGone
  <1>10. AdmittedLive'
    <2> SUFFICES ASSUME NEW r \in rows', ~r.revoked
                 PROVE  r.digest \in admitted'[r.principal]
      BY DEF AdmittedLive
    <2>1. /\ admitted \in [Principal -> SUBSET Digest] /\ r.principal \in Principal
      BY <1>7 DEF TokenInv, BearerTypeOK, Row, TablesAgree
    <2>2. CASE r \in rows \ old
      <3>1. r.digest \in admitted[r.principal]
        BY <2>2 DEF TokenInv, AdmittedLive
      <3> QED BY <3>1, <2>1, <2>2, <1>2, <1>3
    <2>3. CASE r \in added
      BY <2>3, <2>1, <1>1, <1>3
    <2> QED BY <2>2, <2>3, <1>3
  <1> QED BY <1>7, <1>8, <1>9, <1>10 DEF TokenInv, TablesAgree

(* Rows are deleted and nothing is added, by a revocation or the migration.*)
LEMMA DeletePreserves ==
  ASSUME TokenInv, NEW rs \in SUBSET rows,
         tombstones' = _retire_token_row(rs, "revoked"),
         rows' = rows \ rs,
         dropped' \subseteq dropped \cup Digests(rs),
         opened' \in BOOLEAN, opened' => \A r \in rows' : ~r.revoked,
         UNCHANGED <<installing, owners>>,
         \/ admitted' = [p \in Principal |-> admitted[p] \ Digests(rs)]
         \/ UNCHANGED admitted
  PROVE  TokenInv'
  <1>1. TablesAgree'
    <2>1. rows' = (rows \ rs) \cup {}
      OBVIOUS
    <2>2. \A d \in Digest :
            owners'[d] = owners[d] \cup
                           {r.principal : r \in {x \in {} : x.digest = d}}
      OBVIOUS
    <2>3. Move(rs, {}, "revoked")
      BY <2>1, <2>2 DEF Move
    <2> QED BY <2>3, RowsMove
  <1>2. admitted' \in [Principal -> SUBSET Digest]
    BY DEF TokenInv, BearerTypeOK
  <1>3. dropped' \subseteq Digest
    BY DEF TokenInv, BearerTypeOK, Digests, Row
  <1>4. BearerTypeOK'
    BY <1>1, <1>2, <1>3 DEF TokenInv, BearerTypeOK, TablesAgree
  <1>5. AdmittedLive'
    <2> SUFFICES ASSUME NEW r \in rows', ~r.revoked
                 PROVE  r.digest \in admitted'[r.principal]
      BY DEF AdmittedLive
    <2>1. r.digest \in admitted[r.principal] /\ r.principal \in Principal
      BY DEF TokenInv, BearerTypeOK, Row, AdmittedLive
    <2>2. r.digest \notin Digests(rs)
      BY DEF TokenInv, BearerTypeOK, Digests
    <2> QED BY <2>1, <2>2
  <1> QED BY <1>1, <1>4, <1>5 DEF TokenInv, LegacyGone, TablesAgree

(* What the operations on the token tables preserve.                       *)
LEMMA TokenStep == TokenInv /\ BearerNext => TokenInv'
  <1> SUFFICES ASSUME TokenInv, BearerNext
               PROVE  TokenInv'
    OBVIOUS
  <1>1. CASE _migrate
    <2> DEFINE legacy == {r \in rows : r.revoked}
    <2>1. /\ legacy \in SUBSET rows
          /\ tombstones' = _retire_token_row(legacy, "revoked")
          /\ rows' = rows \ legacy
          /\ opened' = TRUE /\ \A r \in rows' : ~r.revoked
          /\ dropped' \subseteq dropped \cup Digests(legacy)
          /\ UNCHANGED <<installing, admitted, owners>>
      BY <1>1 DEF _migrate
    <2> HIDE DEF legacy
    <2> QED BY <2>1, DeletePreserves
  <1>2. ASSUME NEW rs \in SUBSET rows, Revoke(rs)
        PROVE  TokenInv'
    <2>1. opened' \in BOOLEAN /\ (opened' => \A r \in rows' : ~r.revoked)
      BY <1>2 DEF Revoke, TokenInv, LegacyGone, BearerTypeOK
    <2> QED BY <1>2, <2>1, DeletePreserves DEF Revoke, Dropped
  <1>3. ASSUME NEW i \in TokenId, revoke_bearer_token(i)
        PROVE  TokenInv'
    BY <1>2, <1>3 DEF revoke_bearer_token
  <1>4. ASSUME NEW p \in Principal, revoke_principal_tokens(p)
        PROVE  TokenInv'
    BY <1>2, <1>4 DEF revoke_principal_tokens, RowsOf
  <1>5. ASSUME NEW i \in TokenId, NEW p \in Principal, NEW d \in Digest,
               NEW w \in Window,
               put_bearer_token(i, p, d, w) \/ rotate_bearer_token(i, p, d, w)
        PROVE  TokenInv'
    BY <1>5, PutPreserves, RotatePreserves DEF rotate_bearer_token
  <1>6. ASSUME NEW t \in installing, NEW w \in Window, InstallNext(t, w)
        PROVE  TokenInv'
    <2>1. /\ t.principal \in Principal /\ t.digest \in Digest
          /\ Bootstrap[t.principal] \in TokenId
      BY BearerAssumption DEF TokenInv, BearerTypeOK
    <2> QED BY <1>6, <2>1, RotatePreserves DEF InstallNext
  <1>7. ASSUME UNCHANGED <<rows, tombstones, admitted, dropped, owners>>,
               opened' \in BOOLEAN, opened' => opened,
               installing' \subseteq [principal : Principal, digest : Digest]
        PROVE  TokenInv'
    BY <1>7 DEF TokenInv, BearerTypeOK, RowsNotRetired, LegacyGone, DroppedKnown,
                OwnerKnown, AdmittedLive, _token_is_retired, Digests
  <1>8. CASE Stop
    BY <1>7, <1>8 DEF Stop
  <1>9. ASSUME NEW c \in SUBSET [principal : Principal, digest : Digest],
               _install_tokens(c)
        PROVE  TokenInv'
    BY <1>7, <1>9 DEF _install_tokens, TokenInv, BearerTypeOK
  <1>10. ASSUME NEW t \in installing, InstallRefused(t)
         PROVE  TokenInv'
    BY <1>7, <1>10 DEF InstallRefused
  <1> QED BY <1>1, <1>3, <1>4, <1>5, <1>6, <1>8, <1>9, <1>10 DEF BearerNext

(* The rows an older version left satisfy it.                              *)
LEMMA TokenInit == BearerInit => TokenInv
  <1> SUFFICES ASSUME BearerInit
               PROVE  TokenInv
    OBVIOUS
  <1>1. /\ rows \subseteq Row
        /\ \A r, s \in rows : r.digest = s.digest \/ r.token_id = s.token_id => r = s
    BY LegacyAssumption DEF BearerInit
  <1>2. BearerTypeOK
    <2>1. \A r \in rows : r.digest \in Digest /\ r.principal \in Principal
      BY <1>1 DEF Row
    <2>2. \A d \in Digest :
            {r.principal : r \in {x \in rows : x.digest = d}} \in SUBSET Principal
      BY <2>1
    <2>3. owners \in [Digest -> SUBSET Principal]
      BY <2>2 DEF BearerInit
    <2>4. \A p \in Principal :
            {r.digest : r \in {x \in rows : x.principal = p /\ ~x.revoked}}
              \in SUBSET Digest
      BY <2>1
    <2>5. admitted \in [Principal -> SUBSET Digest]
      BY <2>4 DEF BearerInit
    <2>6. dropped \subseteq Digest
      BY <2>1 DEF BearerInit
    <2> QED BY <1>1, <2>3, <2>5, <2>6 DEF BearerInit, BearerTypeOK
  <1>3. RowsNotRetired /\ LegacyGone
    BY DEF BearerInit, RowsNotRetired, LegacyGone, _token_is_retired
  <1>4. DroppedKnown
    BY DEF BearerInit, DroppedKnown
  <1>5. OwnerKnown
    <2>1. ASSUME NEW r \in rows
          PROVE  owners[r.digest] = {r.principal}
      <3>1. r.digest \in Digest
        BY <2>1, <1>1 DEF Row
      <3>2. {x \in rows : x.digest = r.digest} = {r}
        BY <2>1, <1>1
      <3>3. owners[r.digest] = {x.principal : x \in {y \in rows : y.digest = r.digest}}
        BY <3>1 DEF BearerInit
      <3> QED BY <3>2, <3>3
    <2>2. ASSUME NEW d \in Digest, d \notin Digests(rows)
          PROVE  owners[d] = {}
      <3>1. {y \in rows : y.digest = d} = {}
        BY <2>2 DEF Digests
      <3>2. owners[d] = {x.principal : x \in {y \in rows : y.digest = d}}
        BY DEF BearerInit
      <3> QED BY <3>1, <3>2
    <2> QED BY <2>1, <2>2 DEF BearerInit, OwnerKnown
  <1>6. AdmittedLive
    BY <1>1 DEF BearerInit, AdmittedLive, Row
  <1> QED BY <1>2, <1>3, <1>4, <1>5, <1>6 DEF TokenInv

----------------------------------------------------------------------------

(* TokenInv holds in every reachable state: where every digest ever stored *)
(* is (in a row, or in a tombstone), and for whom.                         *)
THEOREM TokenInvHolds == ServiceStoreSpec => []TokenInv
  <1>1. ServiceStoreInit => TokenInv
    BY TokenInit DEF ServiceStoreInit
  <1>2. TokenInv /\ UNCHANGED tokenVars => TokenInv'
    BY DEF TokenInv, BearerTypeOK, RowsNotRetired, LegacyGone, DroppedKnown,
           OwnerKnown, AdmittedLive, _token_is_retired, Digests, tokenVars
  <1>3. TokenInv /\ [ServiceStoreNext]_storeVars => TokenInv'
    BY <1>2, TokenStep DEF ServiceStoreNext, storeVars
  <1> QED BY <1>1, <1>3, PTL DEF ServiceStoreSpec

(* The two tables and the history are well formed, and token_id and        *)
(* token_hash stay unique.                                                 *)
THEOREM BearerTypeCorrect == ServiceStoreSpec => []BearerTypeOK
  <1>1. TokenInv => BearerTypeOK
    BY DEF TokenInv
  <1> QED BY <1>1, TokenInvHolds, PTL

(* A digest that was rotated out or revoked never authenticates again:     *)
(* rotate_bearer_token and put_bearer_token refuse what has a tombstone,   *)
(* and every row that goes leaves one.                                     *)
THEOREM RetiredForEver == ServiceStoreSpec => []RetiredStaysRetired
  <1>1. TokenInv => RetiredStaysRetired
    <2> SUFFICES ASSUME TokenInv, NEW d \in dropped
                 PROVE  authenticate_bearer(d) = {}
      BY DEF RetiredStaysRetired
    <2>1. \A r \in rows : r.digest = d => r.revoked
      BY DEF TokenInv, BearerTypeOK, RowsNotRetired, DroppedKnown
    <2> QED BY <2>1 DEF authenticate_bearer
  <1> QED BY <1>1, TokenInvHolds, PTL

(* Over its whole life a digest is stored for one principal only.          *)
THEOREM OnePrincipalPerToken == ServiceStoreSpec => []OneOwnerEver
  <1>1. TokenInv => OneOwnerEver
    <2> SUFFICES ASSUME TokenInv, NEW d \in Digest
                 PROVE  Cardinality(owners[d]) <= 1
      BY DEF OneOwnerEver
    <2>1. owners[d] = {} \/ \E p : owners[d] = {p}
      <3>1. CASE d \in Digests(rows)
        <4>1. PICK r \in rows : r.digest = d
          BY <3>1 DEF Digests
        <4>2. owners[d] = {r.principal}
          BY <4>1 DEF TokenInv, OwnerKnown
        <4> QED BY <4>2
      <3>2. CASE _token_is_retired(d)
        <4>1. PICK t \in tombstones : t.digest = d
          BY <3>2 DEF _token_is_retired
        <4>2. owners[d] = {t.principal}
          BY <4>1 DEF TokenInv, OwnerKnown
        <4> QED BY <4>2
      <3> QED BY <3>1, <3>2 DEF TokenInv, OwnerKnown
    <2>2. Cardinality({}) = 0
      BY FS_EmptySet
    <2>3. \A p : Cardinality({p}) = 1
      BY FS_Singleton
    <2>4. Cardinality(owners[d]) \in {0, 1}
      BY <2>1, <2>2, <2>3
    <2> QED BY <2>4
  <1> QED BY <1>1, TokenInvHolds, PTL

(* What authenticates a principal was put or rotated in since its last     *)
(* rotation.                                                               *)
THEOREM RotationLeavesNoOther == ServiceStoreSpec => []OnlyAdmittedVerify
  <1>1. TokenInv => OnlyAdmittedVerify
    BY DEF TokenInv, AdmittedLive, OnlyAdmittedVerify, authenticate_bearer
  <1> QED BY <1>1, TokenInvHolds, PTL

----------------------------------------------------------------------------
(* Policies, run bindings and call reservations.                           *)

(* A policy that was withdrawn is revoked, and no revocation is ahead of   *)
(* the time.                                                               *)
WithdrawnRevoked ==
  \A policy \in PolicyId :
    /\ policy \in withdrawn => revokedAt[policy] # None
    /\ revokedAt[policy] # None => revokedAt[policy] <= clock

(* The calls of a principal in flight.                                     *)
InflightCalls(principal) ==
  {i \in CallsOf(principal) : calls[i].state = "reserved"}

(* InflightBounded: the calls a principal has in flight are none or within *)
(* max_inflight of one of its policies, whatever other policies, runs and  *)
(* days they were reserved under.                                          *)
InflightBounded ==
  \A p \in Principal :
    /\ IsFiniteSet(InflightCalls(p))
    /\ \/ InflightCalls(p) = {}
       \/ \E policy \in policies :
            /\ PolicyOf[policy].principal = p
            /\ Cardinality(InflightCalls(p)) <= PolicyOf[policy].max_inflight

CallInv ==
  /\ PrincipalTypeOK /\ ReservationTypeOK
  /\ WithdrawnRevoked /\ OwnerKept /\ InflightBounded

----------------------------------------------------------------------------

(* The shape of the rows that exist.                                       *)
LEMMA RowShapes ==
  ASSUME ReservationTypeOK
  PROVE  /\ \A r \in BoundRuns : r \in Run /\ bindings[r] \in Binding
         /\ \A i \in Reservations : i \in ReservationId /\ calls[i] \in Call
  BY DEF ReservationTypeOK, BoundRuns, Reservations

(* A step on one reservation changes the calls in flight of at most its    *)
(* principal, and a settled one is not in flight.                          *)
LEMMA SettlingOneCall ==
  ASSUME CallInv, NEW i \in Reservations, NEW call \in Call,
         call.principal = calls[i].principal, call.run = calls[i].run,
         call.state # "reserved",
         calls' = [calls EXCEPT ![i] = call],
         UNCHANGED <<principalVars, policies, revokedAt, bindings, withdrawn>>
  PROVE  CallInv'
  <1>1. /\ calls \in [ReservationId -> Call \cup {None}]
        /\ \A j \in ReservationId : calls'[j] = IF j = i THEN call ELSE calls[j]
        /\ i \in ReservationId /\ calls[i] # None /\ call # None
    BY NoneAssumption DEF CallInv, ReservationTypeOK, Reservations
  <1>2. calls' \in [ReservationId -> Call \cup {None}]
    BY <1>1
  <1>3. ReservationTypeOK' /\ PrincipalTypeOK' /\ WithdrawnRevoked'
    BY <1>2 DEF CallInv, ReservationTypeOK, PrincipalTypeOK, WithdrawnRevoked,
                principalVars
  <1>4. Reservations' = Reservations
    BY <1>1 DEF Reservations
  <1>5. OwnerKept'
    <2>1. \A j \in Reservations : /\ calls'[j].run = calls[j].run
                                  /\ calls'[j].principal = calls[j].principal
      BY <1>1 DEF Reservations
    <2>2. \A r : run_owner(r)' = run_owner(r)
      BY DEF run_owner, BoundRuns
    <2> QED BY <2>1, <2>2, <1>4 DEF OwnerKept, CallInv
  <1>6. ASSUME NEW p \in Principal
        PROVE  InflightCalls(p)' = InflightCalls(p) \ {i}
    BY <1>1, <1>4 DEF InflightCalls, CallsOf, Reservations
  <1>7. InflightBounded'
    <2> SUFFICES ASSUME NEW p \in Principal
                 PROVE  /\ IsFiniteSet(InflightCalls(p) \ {i})
                        /\ \/ InflightCalls(p) \ {i} = {}
                           \/ \E policy \in policies :
                                /\ PolicyOf[policy].principal = p
                                /\ Cardinality(InflightCalls(p) \ {i})
                                     <= PolicyOf[policy].max_inflight
      BY <1>6 DEF InflightBounded
    <2>1. IsFiniteSet(InflightCalls(p))
      BY DEF CallInv, InflightBounded
    <2>2. /\ IsFiniteSet(InflightCalls(p) \ {i})
          /\ Cardinality(InflightCalls(p) \ {i}) <= Cardinality(InflightCalls(p))
      BY <2>1, FS_Subset
    <2>3. /\ Cardinality(InflightCalls(p)) \in Nat
          /\ Cardinality(InflightCalls(p) \ {i}) \in Nat
      BY <2>1, <2>2, FS_CardinalityType
    <2>4. CASE InflightCalls(p) = {}
      BY <2>2, <2>4
    <2>5. ASSUME NEW policy \in policies, PolicyOf[policy].principal = p,
                 Cardinality(InflightCalls(p)) <= PolicyOf[policy].max_inflight
          PROVE  Cardinality(InflightCalls(p) \ {i}) <= PolicyOf[policy].max_inflight
      <3>1. PolicyOf[policy].max_inflight \in Nat
        BY ReservationAssumption DEF Policy, CallInv, ReservationTypeOK
      <3> QED BY <3>1, <2>2, <2>3, <2>5
    <2> QED BY <2>2, <2>4, <2>5 DEF CallInv, InflightBounded
  <1> QED BY <1>3, <1>5, <1>7 DEF CallInv

(* reconcile_call and release_call, which settle a call in flight.         *)
LEMMA SettlePreserves ==
  ASSUME CallInv, NEW i \in ReservationId, NEW p \in Principal,
         release_call(i, p) \/ \E a \in Actual : reconcile_call(i, p, a)
  PROVE  CallInv'
  <1>1. i \in Reservations /\ calls[i] \in Call
    BY RowShapes DEF release_call, reconcile_call, CallsOf, CallInv
  <1>2. CASE release_call(i, p)
    <2> DEFINE call == [calls[i] EXCEPT !.state = "released"]
    <2>1. calls' = [calls EXCEPT ![i] = call]
      BY <1>2 DEF release_call
    <2>2. /\ call \in Call /\ call.principal = calls[i].principal
          /\ call.run = calls[i].run /\ call.state # "reserved"
      BY <1>1 DEF Call
    <2> HIDE DEF call
    <2> QED BY <1>1, <1>2, <2>1, <2>2, SettlingOneCall DEF release_call
  <1>3. ASSUME NEW a \in Actual, reconcile_call(i, p, a)
        PROVE  CallInv'
    <2> DEFINE call == Reconciled(calls[i], a)
    <2>1. calls' = [calls EXCEPT ![i] = call]
      BY <1>3 DEF reconcile_call
    <2>2. /\ call \in Call /\ call.principal = calls[i].principal
          /\ call.run = calls[i].run /\ call.state # "reserved"
      BY <1>1 DEF Call, Reconciled
    <2> HIDE DEF call
    <2> QED BY <1>1, <1>3, <2>1, <2>2, SettlingOneCall DEF reconcile_call
  <1> QED BY <1>2, <1>3

(* reserve_call inserts one row, for the owner of the run and only while   *)
(* fewer than max_inflight of its calls are in flight.                     *)
LEMMA ReservePreserves ==
  ASSUME CallInv, NEW i \in ReservationId, NEW policy \in PolicyId,
         NEW p \in Principal, NEW run \in Run, NEW scope \in Scope, NEW u \in Units,
         reserve_call(i, policy, p, run, scope, u)
  PROVE  CallInv'
  <1> DEFINE call == [policy |-> policy, principal |-> p, run |-> run,
                      scope |-> scope, units |-> u, state |-> "reserved",
                      actual |-> None, day |-> Day(clock), month |-> Month(clock)]
  <1>1. clock \in Time
    BY DEF CallInv, PrincipalTypeOK, Time
  <1>2. call \in Call
    BY <1>1 DEF Call
  <1>3. /\ call.principal = p /\ call.run = run /\ call.state = "reserved"
        /\ call.policy = policy
    OBVIOUS
  <1>4. calls' = [calls EXCEPT ![i] = call]
    BY DEF reserve_call
  <1> HIDE DEF call
  <1>5. /\ calls \in [ReservationId -> Call \cup {None}]
        /\ \A j \in ReservationId : calls'[j] = IF j = i THEN call ELSE calls[j]
        /\ i \notin Reservations /\ call # None
    BY <1>2, <1>4, NoneAssumption DEF CallInv, ReservationTypeOK, reserve_call
  <1>6. calls' \in [ReservationId -> Call \cup {None}]
    BY <1>2, <1>5, <1>4
  <1>7. ReservationTypeOK' /\ PrincipalTypeOK' /\ WithdrawnRevoked'
    BY <1>6 DEF CallInv, ReservationTypeOK, PrincipalTypeOK, WithdrawnRevoked,
                principalVars, reserve_call
  <1>8. Reservations' = Reservations \cup {i}
    BY <1>5 DEF Reservations
  <1>9. OwnerKept'
    <2>1. \A j \in Reservations : calls'[j] = calls[j]
      BY <1>5 DEF Reservations
    <2>2. \A r : run_owner(r)' = run_owner(r)
      BY DEF run_owner, BoundRuns, reserve_call
    <2>3. run_owner(run) = p
      BY DEF reserve_call
    <2> QED BY <1>3, <1>5, <1>8, <2>1, <2>2, <2>3 DEF OwnerKept, CallInv
  <1>10. ASSUME NEW q \in Principal
         PROVE  InflightCalls(q)' = IF q = p THEN InflightCalls(q) \cup {i}
                                    ELSE InflightCalls(q)
    <2>1. \A j \in Reservations : calls'[j] = calls[j]
      BY <1>5 DEF Reservations
    <2> QED BY <1>3, <1>5, <1>8, <2>1 DEF InflightCalls, CallsOf
  <1>11. InflightBounded'
    <2> SUFFICES ASSUME NEW q \in Principal
                 PROVE  /\ IsFiniteSet(InflightCalls(q)')
                        /\ \/ InflightCalls(q)' = {}
                           \/ \E pol \in policies' :
                                /\ PolicyOf[pol].principal = q
                                /\ Cardinality(InflightCalls(q)')
                                     <= PolicyOf[pol].max_inflight
      BY DEF InflightBounded
    <2>0. policies' = policies /\ policy \in policies
      BY DEF reserve_call, Authorizes
    <2>1. CASE q # p
      <3>1. InflightCalls(q)' = InflightCalls(q)
        BY <2>1, <1>10
      <3> QED BY <2>0, <3>1 DEF CallInv, InflightBounded
    <2>2. CASE q = p
      <3>1. IsFiniteSet(InflightCalls(q)) /\ i \notin InflightCalls(q)
        BY <1>5 DEF CallInv, InflightBounded, InflightCalls, CallsOf
      <3>2. /\ IsFiniteSet(InflightCalls(q) \cup {i})
            /\ Cardinality(InflightCalls(q) \cup {i})
                 = Cardinality(InflightCalls(q)) + 1
        BY <3>1, FS_AddElement
      <3>3. Cardinality(InflightCalls(q)) \in Nat
        BY <3>1, FS_CardinalityType
      <3>4. /\ Cardinality(InflightCalls(q)) < PolicyOf[policy].max_inflight
            /\ PolicyOf[policy].principal = q
        BY <2>2 DEF reserve_call, HasRoom, Inflight, InflightCalls, Authorizes
      <3>5. PolicyOf[policy].max_inflight \in Nat
        BY ReservationAssumption DEF Policy
      <3>6. Cardinality(InflightCalls(q) \cup {i}) <= PolicyOf[policy].max_inflight
        BY <3>2, <3>3, <3>4, <3>5
      <3> QED BY <2>0, <2>2, <1>10, <3>2, <3>4, <3>6
    <2> QED BY <2>1, <2>2
  <1> QED BY <1>7, <1>9, <1>11 DEF CallInv

(* bind_run and abandon_run_binding: the run of a reserved call keeps its  *)
(* binding.                                                                *)
LEMMA BindingPreserves ==
  ASSUME CallInv, NEW run \in Run,
         \/ \E p \in Principal, key \in Key : bind_run(p, key, run)
         \/ abandon_run_binding(run)
  PROVE  CallInv'
  <1>1. UNCHANGED <<principalVars, policies, revokedAt, calls, withdrawn>>
    BY DEF bind_run, abandon_run_binding
  <1>b. \E b \in Binding \cup {None} : bindings' = [bindings EXCEPT ![run] = b]
    <2>1. ASSUME NEW p \in Principal, NEW key \in Key, bind_run(p, key, run)
          PROVE  \E b \in Binding : bindings' = [bindings EXCEPT ![run] = b]
      <3>1. [principal |-> p, key |-> key] \in Binding
        BY DEF Binding
      <3> QED BY <2>1, <3>1 DEF bind_run
    <2> QED BY <2>1 DEF bind_run, abandon_run_binding
  <1>t. bindings' \in [Run -> Binding \cup {None}]
    BY <1>b DEF CallInv, ReservationTypeOK
  <1>2. ReservationTypeOK' /\ PrincipalTypeOK' /\ WithdrawnRevoked'
    BY <1>t, <1>1 DEF CallInv, ReservationTypeOK, PrincipalTypeOK, WithdrawnRevoked,
                principalVars
  <1>3. Reservations' = Reservations
    BY <1>1 DEF Reservations
  <1>4. ASSUME NEW i \in Reservations
        PROVE  run_owner(calls[i].run)' = run_owner(calls[i].run)
    <2>1. calls[i].principal \in Principal /\ calls[i].run \in Run
      BY RowShapes DEF CallInv, Call
    <2>2. calls[i].run \in BoundRuns
      BY <2>1, NoneAssumption DEF CallInv, OwnerKept, run_owner
    <2>3. calls[i].run # run
      BY <2>2 DEF bind_run, abandon_run_binding
    <2>4. bindings'[calls[i].run] = bindings[calls[i].run]
      BY <2>1, <2>3 DEF bind_run, abandon_run_binding, CallInv, ReservationTypeOK
    <2> QED BY <1>1, <2>4 DEF run_owner, BoundRuns
  <1>5. OwnerKept'
    BY <1>1, <1>3, <1>4 DEF OwnerKept, CallInv
  <1>6. InflightBounded'
    BY <1>1, <1>3 DEF CallInv, InflightBounded, InflightCalls, CallsOf
  <1> QED BY <1>2, <1>5, <1>6 DEF CallInv

(* put_policy, revoke_policy, and the steps of the principals and the time.*)
LEMMA PolicyPreserves ==
  ASSUME CallInv,
         \/ \E policy \in PolicyId : put_policy(policy) \/ revoke_policy(policy)
         \/ /\ Tick \/ \E p \in Principal, b \in BOOLEAN : set_principal_enabled(p, b)
            /\ UNCHANGED callVars
         \/ UNCHANGED <<principalVars, callVars>>
  PROVE  CallInv'
  <1> USE DEF put_policy, revoke_policy, Tick, set_principal_enabled,
              principalVars, callVars
  <1>1. UNCHANGED <<bindings, calls>>
    OBVIOUS
  <1>2. clock \in Time /\ clock' \in Time /\ clock <= clock'
    BY PrincipalAssumption DEF CallInv, PrincipalTypeOK, Time
  <1>3. PrincipalTypeOK'
    BY <1>2 DEF CallInv, PrincipalTypeOK, Time
  <1>4. revokedAt' \in [PolicyId -> Time \cup {None}]
    BY <1>2 DEF CallInv, ReservationTypeOK
  <1>5. ReservationTypeOK'
    BY <1>1, <1>4 DEF CallInv, ReservationTypeOK
  <1>6. WithdrawnRevoked'
    <2> SUFFICES ASSUME NEW policy \in PolicyId
                 PROVE  /\ policy \in withdrawn' => revokedAt'[policy] # None
                        /\ revokedAt'[policy] # None => revokedAt'[policy] <= clock'
      BY DEF WithdrawnRevoked
    <2>1. /\ revokedAt \in [PolicyId -> Time \cup {None}]
          /\ policy \in withdrawn => revokedAt[policy] # None
          /\ revokedAt[policy] # None => revokedAt[policy] <= clock
      BY DEF CallInv, ReservationTypeOK, WithdrawnRevoked
    <2>2. \/ revokedAt'[policy] = clock /\ revokedAt[policy] = None
          \/ /\ revokedAt'[policy] = revokedAt[policy]
             /\ policy \in withdrawn' => policy \in withdrawn \/ revokedAt[policy] # None
      BY <2>1
    <2>3. CASE revokedAt'[policy] = clock /\ revokedAt[policy] = None
      BY <2>3, <1>2, NoneAssumption DEF Time
    <2>4. CASE /\ revokedAt'[policy] = revokedAt[policy]
               /\ policy \in withdrawn' => policy \in withdrawn \/ revokedAt[policy] # None
      <3>1. policy \in withdrawn' => revokedAt'[policy] # None
        BY <2>1, <2>4
      <3>2. ASSUME revokedAt'[policy] # None
            PROVE  revokedAt'[policy] <= clock'
        <4>1. revokedAt[policy] \in Time /\ revokedAt[policy] <= clock
          BY <2>1, <2>4, <3>2
        <4> QED BY <4>1, <2>4, <1>2 DEF Time
      <3> QED BY <3>1, <3>2
    <2> QED BY <2>2, <2>3, <2>4
  <1>7. OwnerKept'
    <2>1. Reservations' = Reservations /\ \A r : run_owner(r)' = run_owner(r)
      BY <1>1 DEF Reservations, run_owner, BoundRuns
    <2> QED BY <1>1, <2>1 DEF CallInv, OwnerKept
  <1>8. InflightBounded'
    <2>1. \A p : InflightCalls(p)' = InflightCalls(p)
      BY <1>1 DEF InflightCalls, CallsOf, Reservations
    <2> QED BY <2>1 DEF CallInv, InflightBounded
  <1> QED BY <1>3, <1>5, <1>6, <1>7, <1>8 DEF CallInv

----------------------------------------------------------------------------

(* What every step of the store does to the call tables.                   *)
LEMMA CallStep == CallInv /\ [ServiceStoreNext]_storeVars => CallInv'
  <1> SUFFICES ASSUME CallInv, [ServiceStoreNext]_storeVars
               PROVE  CallInv'
    OBVIOUS
  <1>1. CASE ReservationNext
    <2>1. ASSUME NEW policy \in PolicyId, put_policy(policy) \/ revoke_policy(policy)
          PROVE  CallInv'
      BY <2>1, PolicyPreserves
    <2>2. ASSUME NEW run \in Run,
                 \/ \E p \in Principal, key \in Key : bind_run(p, key, run)
                 \/ abandon_run_binding(run)
          PROVE  CallInv'
      BY <2>2, BindingPreserves
    <2>3. ASSUME NEW i \in ReservationId, NEW p \in Principal, NEW policy \in PolicyId,
                 NEW run \in Run, NEW scope \in Scope, NEW u \in Units,
                 reserve_call(i, policy, p, run, scope, u)
          PROVE  CallInv'
      BY <2>3, ReservePreserves
    <2>4. ASSUME NEW i \in ReservationId, NEW p \in Principal,
                 release_call(i, p) \/ \E a \in Actual : reconcile_call(i, p, a)
          PROVE  CallInv'
      BY <2>4, SettlePreserves
    <2> QED BY <1>1, <2>1, <2>2, <2>3, <2>4 DEF ReservationNext
  <1>2. ASSUME BearerNext, UNCHANGED callVars
        PROVE  CallInv'
    <2>1. ASSUME _migrate \/ Stop PROVE UNCHANGED principalVars
      BY <2>1 DEF _migrate, Stop
    <2>2. ASSUME NEW t, NEW p, NEW d, NEW w,
                 put_bearer_token(t, p, d, w) \/ rotate_bearer_token(t, p, d, w)
          PROVE  UNCHANGED principalVars
      BY <2>2 DEF put_bearer_token, rotate_bearer_token, Rotated
    <2>3. ASSUME NEW t, revoke_bearer_token(t) \/ revoke_principal_tokens(t)
          PROVE  UNCHANGED principalVars
      BY <2>3 DEF revoke_bearer_token, revoke_principal_tokens, Revoke
    <2>4. ASSUME NEW c, _install_tokens(c) PROVE UNCHANGED principalVars
      BY <2>4 DEF _install_tokens
    <2>5. ASSUME NEW t, NEW w, InstallNext(t, w) \/ InstallRefused(t)
          PROVE  UNCHANGED principalVars
      BY <2>5 DEF InstallNext, InstallRefused, Rotated
    <2>6. UNCHANGED principalVars
      BY <1>2, <2>1, <2>2, <2>3, <2>4, <2>5, Zenon DEF BearerNext
    <2> QED BY <1>2, <2>6, PolicyPreserves
  <1>3. CASE /\ Tick \/ \E p \in Principal, b \in BOOLEAN : set_principal_enabled(p, b)
             /\ UNCHANGED callVars
    BY <1>3, PolicyPreserves
  <1>4. CASE UNCHANGED storeVars
    BY <1>4, PolicyPreserves DEF storeVars
  <1> QED BY <1>1, <1>2, <1>3, <1>4 DEF ServiceStoreNext

(* The tables are empty, all principals enabled.                           *)
LEMMA CallInit == ServiceStoreInit => CallInv
  <1> SUFFICES ASSUME ServiceStoreInit
               PROVE  CallInv
    OBVIOUS
  <1> USE DEF ServiceStoreInit, PrincipalInit, ReservationInit
  <1>1. PrincipalTypeOK
    BY PrincipalAssumption DEF PrincipalTypeOK
  <1>2. ReservationTypeOK
    BY DEF ReservationTypeOK
  <1>3. WithdrawnRevoked
    BY DEF WithdrawnRevoked
  <1>4. Reservations = {}
    BY DEF Reservations
  <1>5. OwnerKept
    BY <1>4 DEF OwnerKept
  <1>6. InflightBounded
    <2>1. \A p : InflightCalls(p) = {}
      BY <1>4 DEF InflightCalls, CallsOf
    <2> QED BY <2>1, FS_EmptySet DEF InflightBounded
  <1> QED BY <1>1, <1>2, <1>3, <1>5, <1>6 DEF CallInv

(* CallInv holds in every reachable state.                                 *)
THEOREM CallInvHolds == ServiceStoreSpec => []CallInv
  BY CallInit, CallStep, PTL DEF ServiceStoreSpec

(* All tables of the store are well formed.                                *)
THEOREM ServiceStoreTypeCorrect == ServiceStoreSpec => []ServiceStoreTypeOK
  <1>1. CallInv /\ BearerTypeOK => ServiceStoreTypeOK
    BY DEF CallInv, ServiceStoreTypeOK
  <1> QED BY <1>1, CallInvHolds, BearerTypeCorrect, PTL

(* A reserved call keeps its owner: abandon_run_binding leaves a run alone *)
(* that has a reservation, and bind_run one that is bound.                 *)
THEOREM CallsKeepTheirOwner == ServiceStoreSpec => []OwnerKept
  <1>1. CallInv => OwnerKept
    BY DEF CallInv
  <1> QED BY <1>1, CallInvHolds, PTL

(* The calls in flight of a principal stay within max_inflight of a policy *)
(* it has: reserve_call counts all of them, of whatever day and policy.    *)
THEOREM InflightStaysBounded == ServiceStoreSpec => []InflightBounded
  <1>1. CallInv => InflightBounded
    BY DEF CallInv
  <1> QED BY <1>1, CallInvHolds, PTL

(* A step that changes a reservation is one of the three that write them.  *)
LEMMA CallsChange ==
  ASSUME [ServiceStoreNext]_storeVars, calls' # calls
  PROVE  \E i \in ReservationId, p \in Principal :
           \/ \E policy \in PolicyId, run \in Run, scope \in Scope, u \in Units :
                reserve_call(i, policy, p, run, scope, u)
           \/ \E a \in Actual : reconcile_call(i, p, a)
           \/ release_call(i, p)
  BY DEF ServiceStoreNext, ReservationNext, storeVars, callVars, put_policy,
         revoke_policy, bind_run, abandon_run_binding

(* Nothing is reserved under a policy that revoke_policy was ever called   *)
(* for: put_policy of the next start does not bring it back.               *)
THEOREM RevocationStands == ServiceStoreSpec => RevokedForGood
  <1>1. CallInv /\ [ServiceStoreNext]_storeVars
          => [\A i \in ReservationId :
                calls[i] = None /\ calls'[i] # None
                  => calls'[i].policy \notin withdrawn]_callVars
    <2> SUFFICES ASSUME CallInv, [ServiceStoreNext]_storeVars,
                        NEW j \in ReservationId,
                        calls[j] = None, calls'[j] # None
                 PROVE  calls'[j].policy \notin withdrawn
      OBVIOUS
    <2>1. calls \in [ReservationId -> Call \cup {None}]
      BY DEF CallInv, ReservationTypeOK
    <2>2. ASSUME NEW i \in ReservationId, NEW p \in Principal, i \in CallsOf(p),
                 NEW call, calls' = [calls EXCEPT ![i] = call]
          PROVE  FALSE
      BY <2>1, <2>2 DEF CallsOf, Reservations
    <2>3. PICK i \in ReservationId, p \in Principal, policy \in PolicyId,
               run \in Run, scope \in Scope, u \in Units :
                 reserve_call(i, policy, p, run, scope, u)
      <3>1. ASSUME NEW i \in ReservationId, NEW p \in Principal,
                   release_call(i, p) \/ \E a \in Actual : reconcile_call(i, p, a)
            PROVE  FALSE
        BY <2>2, <3>1 DEF release_call, reconcile_call
      <3> QED BY <3>1, CallsChange
    <2>4. j = i /\ calls'[j].policy = policy
      BY <2>1, <2>3 DEF reserve_call
    <2>5. clock \in Time /\ Active(policy)
      BY <2>3 DEF CallInv, PrincipalTypeOK, Time, reserve_call, Authorizes
    <2>6. policy \in withdrawn =>
            revokedAt[policy] \in Time /\ revokedAt[policy] <= clock
      BY DEF CallInv, WithdrawnRevoked, ReservationTypeOK
    <2>7. policy \notin withdrawn
      BY <2>5, <2>6 DEF CallInv, WithdrawnRevoked, Active, Time
    <2> QED BY <2>4, <2>7
  <1> QED BY <1>1, CallInvHolds, PTL DEF ServiceStoreSpec, RevokedForGood

(* A settled reservation never changes: reconcile_call and release_call    *)
(* write reserved ones only, reserve_call none that exists.                *)
THEOREM SettledStays == ServiceStoreSpec => SettledIsFinal
  <1>1. CallInv /\ [ServiceStoreNext]_storeVars
          => [\A i \in Reservations :
                calls[i].state # "reserved" => calls'[i] = calls[i]]_callVars
    <2> SUFFICES ASSUME CallInv, [ServiceStoreNext]_storeVars,
                        NEW j \in Reservations, calls[j].state # "reserved",
                        calls' # calls
                 PROVE  calls'[j] = calls[j]
      OBVIOUS
    <2>1. calls \in [ReservationId -> Call \cup {None}]
      BY DEF CallInv, ReservationTypeOK
    <2>2. PICK i \in ReservationId :
                 /\ i # j
                 /\ \E call : calls' = [calls EXCEPT ![i] = call]
      BY CallsChange DEF reserve_call, reconcile_call, release_call
    <2> QED BY <2>1, <2>2 DEF Reservations
  <1> QED BY <1>1, CallInvHolds, PTL DEF ServiceStoreSpec, SettledIsFinal

----------------------------------------------------------------------------
(* The budget.                                                             *)

(* What Max is, for the limits.                                            *)
LEMMA MaxIs ==
  ASSUME NEW S \in SUBSET Nat, IsFiniteSet(S), S # {}
  PROVE  Max(S) \in S /\ \A x \in S : x <= Max(S)
  <1> DEFINE Bad == {T \in SUBSET S : T # {} /\ ~ \E x \in T : \A y \in T : x >= y}
  <1>1. Bad = {} => \E x \in S : \A y \in S : x >= y
    OBVIOUS
  <1>2. ASSUME Bad # {}
        PROVE  FALSE
    <2>m. PICK T \in Bad : IsFiniteSet(T) /\ \A U \in SUBSET T : U # T => U \notin Bad
      <3>1. Bad \in SUBSET SUBSET S
        OBVIOUS
      <3> HIDE DEF Bad
      <3> QED BY <1>2, <3>1, MinimalSet
    <2>1. PICK z \in T : TRUE
      BY <2>m
    <2>2. T \ {z} # {}
      <3>1. ASSUME T \ {z} = {}
            PROVE  \A y \in T : z >= y
        BY <2>1, <3>1, <2>m
      <3> QED BY <3>1, <2>m
    <2>3. PICK x \in T \ {z} : \A y \in T \ {z} : x >= y
      BY <2>2, <2>m
    <2>4. x \in Nat /\ z \in Nat /\ \A y \in T : y \in Nat
      BY <2>m
    <2>5. \/ \A y \in T : x >= y
          \/ \A y \in T : z >= y
      BY <2>3, <2>4
    <2> QED BY <2>5, <2>m
  <1>3. PICK x \in S : \A y \in S : x >= y
    BY <1>1, <1>2
  <1>4. Max(S) \in S /\ \A y \in S : Max(S) >= y
    BY <1>3 DEF Max
  <1> QED BY <1>4

(* The limit under the policies ps.                                        *)
LimitOf(ps, p, field) ==
  Max({0} \cup {PolicyOf[q][field] : q \in {r \in ps : PolicyOf[r].principal = p}})

(* A limit is one that a registered policy of the principal sets, or 0, and*)
(* none of its policies sets a larger one.                                 *)
LEMMA LimitBounds ==
  ASSUME NEW ps \in SUBSET PolicyId, IsFiniteSet(ps), NEW p,
         NEW field \in {"max_inflight", "daily", "monthly"}
  PROVE  /\ LimitOf(ps, p, field) \in Nat
         /\ \A policy \in ps :
              PolicyOf[policy].principal = p
                => /\ PolicyOf[policy][field] \in Nat
                   /\ PolicyOf[policy][field] <= LimitOf(ps, p, field)
         /\ \/ LimitOf(ps, p, field) = 0
            \/ \E policy \in ps :
                 /\ PolicyOf[policy].principal = p
                 /\ LimitOf(ps, p, field) = PolicyOf[policy][field]
  <1> DEFINE mine == {q \in ps : PolicyOf[q].principal = p}
             given == {PolicyOf[q][field] : q \in mine}
             all == {0} \cup given
  <1>1. \A q \in PolicyId : PolicyOf[q][field] \in Nat
    BY ReservationAssumption DEF Policy
  <1>2. IsFiniteSet(given)
    <2>1. IsFiniteSet(mine)
      BY FS_Subset
    <2> DEFINE h == [q \in mine |-> PolicyOf[q][field]]
    <2>2. h \in Surjection(mine, given)
      BY DEF Surjection
    <2> HIDE DEF mine, h, given
    <2> QED BY <2>1, <2>2, FS_Surjection
  <1>3. all \in SUBSET Nat /\ IsFiniteSet(all)
    <2>1. all = given \cup {0}
      OBVIOUS
    <2>2. IsFiniteSet(given \cup {0})
      BY <1>2, FS_AddElement
    <2>3. given \subseteq Nat
      BY <1>1
    <2> HIDE DEF given
    <2>4. all \subseteq Nat
      BY <2>3
    <2> QED BY <2>1, <2>2, <2>4
  <1>4. LimitOf(ps, p, field) = Max(all)
    BY DEF LimitOf
  <1>5. Max(all) \in all /\ \A x \in all : x <= Max(all)
    <2>1. all # {}
      OBVIOUS
    <2> HIDE DEF all
    <2> QED BY <1>3, <2>1, MaxIs
  <1> QED BY <1>1, <1>3, <1>4, <1>5

(* put_policy takes no limit down.                                         *)
LEMMA LimitGrows ==
  ASSUME NEW ps \in SUBSET PolicyId, IsFiniteSet(ps),
         NEW qs \in SUBSET PolicyId, IsFiniteSet(qs), ps \subseteq qs,
         NEW p, NEW field \in {"max_inflight", "daily", "monthly"}
  PROVE  LimitOf(ps, p, field) <= LimitOf(qs, p, field)
  <1>1. LimitOf(qs, p, field) \in Nat /\ LimitOf(ps, p, field) \in Nat
    BY LimitBounds
  <1>2. CASE LimitOf(ps, p, field) = 0
    BY <1>1, <1>2
  <1>3. ASSUME NEW policy \in ps, PolicyOf[policy].principal = p,
               LimitOf(ps, p, field) = PolicyOf[policy][field]
        PROVE  LimitOf(ps, p, field) <= LimitOf(qs, p, field)
    <2>1. policy \in qs
      OBVIOUS
    <2> QED BY <1>3, <2>1, LimitBounds
  <1> QED BY <1>2, <1>3, LimitBounds

(* The actual cost of a reconciled call is known.                          *)
CostKnown ==
  \A i \in Reservations : calls[i].state = "reconciled" => calls[i].actual \in Actual

(* The calls is cost no more than the limit and their overruns.            *)
WithinLimit(is, limit) == SumFunctionOnSet(Cost, is) <= limit + Overrun(is)

(* What the budget is counted over.                                        *)
Days == {Day(t) : t \in Time}
Months == {Month(t) : t \in Time}

OnDay(p, day) == {i \in CallsOf(p) : calls[i].day = day}
InMonth(p, month) == {i \in CallsOf(p) : calls[i].month = month}

(* UsageBounded: the sums of _usage, for every period.                     *)
UsageBounded ==
  \A p \in Principal :
    /\ \A day \in Days : WithinLimit(OnDay(p, day), Limit(p, "daily"))
    /\ \A month \in Months :
         WithinLimit(InMonth(p, month), Limit(p, "monthly"))

(* With CallInv this is inductive.  The sums need the finiteness: only     *)
(* finitely many rows were ever inserted.                                  *)
BudgetInv ==
  /\ IsFiniteSet(policies) /\ IsFiniteSet(Reservations)
  /\ CostKnown /\ UsageBounded

(* What a reservation counts for in each of its states.                    *)
LEMMA CostsAreNats ==
  ASSUME ReservationTypeOK, CostKnown, NEW i \in Reservations
  PROVE  /\ Cost[i] \in Nat /\ Excess[i] \in Nat
         /\ calls[i].state = "reserved" => Cost[i] = calls[i].units /\ Excess[i] = 0
         /\ calls[i].state = "released" => Cost[i] = 0 /\ Excess[i] = 0
         /\ calls[i].state = "reconciled" => Cost[i] <= calls[i].units + Excess[i]
  <1>1. /\ calls[i].units \in Nat
        /\ calls[i].state \in {"reserved", "reconciled", "released"}
        /\ calls[i].state = "reconciled" => calls[i].actual \in Nat
    BY RowShapes, ReservationAssumption DEF Call, CostKnown
  <1> QED BY <1>1 DEF Cost, Excess

(* reconcile_call and release_call on a call in flight keep every bounded set*)
(* of calls bounded: what they book beyond its units is an overrun.        *)
LEMMA SettlingKeepsLimit ==
  ASSUME ReservationTypeOK, ReservationTypeOK', CostKnown, CostKnown',
         Reservations' = Reservations,
         NEW i \in Reservations, NEW call, call.state # "reserved",
         calls[i].state = "reserved", call.units = calls[i].units,
         calls' = [calls EXCEPT ![i] = call],
         NEW is \in SUBSET Reservations, IsFiniteSet(is), NEW limit \in Nat,
         WithinLimit(is, limit)
  PROVE  WithinLimit(is, limit)'
  <1>1. \A j \in Reservations : calls'[j] = IF j = i THEN call ELSE calls[j]
    BY DEF ReservationTypeOK, Reservations
  <1>2. \A j \in Reservations : Cost[j] \in Nat /\ Excess[j] \in Nat
    BY CostsAreNats
  <1>3. Cost[i] = calls[i].units /\ Excess[i] = 0
    BY CostsAreNats
  <1>p. ASSUME NEW j \in Reservations'
        PROVE  /\ Cost'[j] \in Nat /\ Excess'[j] \in Nat
               /\ calls'[j].state = "released" => Cost'[j] = 0
               /\ calls'[j].state = "reconciled" => Cost'[j] <= calls'[j].units + Excess'[j]
               /\ calls'[j].state \in {"reserved", "reconciled", "released"}
               /\ calls'[j].units \in Nat
    <2>1. /\ calls'[j].units \in Nat
          /\ calls'[j].state \in {"reserved", "reconciled", "released"}
          /\ calls'[j].state = "reconciled" => calls'[j].actual \in Nat
      BY ReservationAssumption DEF Call, CostKnown, ReservationTypeOK, Reservations
    <2> QED BY <2>1 DEF Cost, Excess
  <1>4. \A j \in Reservations : j # i => Cost'[j] = Cost[j] /\ Excess'[j] = Excess[j]
    BY <1>1 DEF Cost, Excess
  <1>5. \A j \in is : /\ Cost[j] \in Nat /\ Excess[j] \in Nat
                      /\ Cost'[j] \in Nat /\ Excess'[j] \in Nat
                      /\ Cost'[j] + Excess[j] <= Cost[j] + Excess'[j]
    <2> SUFFICES ASSUME NEW j \in is
                 PROVE  Cost'[j] + Excess[j] <= Cost[j] + Excess'[j]
      BY <1>2, <1>p
    <2>1. CASE j # i
      BY <2>1, <1>2, <1>4
    <2>2. CASE j = i
      <3>1. calls'[i].units = calls[i].units /\ calls'[i].state # "reserved"
        BY <1>1
      <3> QED BY <2>2, <3>1, <1>2, <1>3, <1>p
    <2> QED BY <2>1, <2>2
  <1>6. SumFunctionOnSet(Cost, is) <= limit + SumFunctionOnSet(Excess, is)
    BY DEF WithinLimit, Overrun
  <1>7. SumFunctionOnSet(Cost', is) <= limit + SumFunctionOnSet(Excess', is)
    BY <1>5, <1>6, SumShift
  <1> QED BY <1>7 DEF WithinLimit, Overrun

(* The limit depends on the registered policies only.                      *)
LEMMA LimitIs == \A p : \A field : Limit(p, field) = LimitOf(policies, p, field)
  BY DEF Limit, LimitOf

(* A new reservation leaves the sums of the other calls, and fits in a set of*)
(* calls that has room for it.                                             *)
LEMMA AddingKeepsLimit ==
  ASSUME ReservationTypeOK, CostKnown, NEW i \in ReservationId, i \notin Reservations,
         NEW call, call # None, call.state = "reserved", call.units \in Nat,
         calls' = [calls EXCEPT ![i] = call],
         NEW is \in SUBSET Reservations, IsFiniteSet(is), NEW limit \in Nat
  PROVE  /\ WithinLimit(is, limit) => WithinLimit(is, limit)'
         /\ SumFunctionOnSet(Cost, is) + call.units <= limit
              => WithinLimit(is \cup {i}, limit)'
  <1>1. /\ \A j \in Reservations : calls'[j] = calls[j]
        /\ calls'[i] = call
        /\ Reservations' = Reservations \cup {i}
    BY DEF ReservationTypeOK, Reservations
  <1>2. \A j \in is : Cost[j] \in Nat /\ Excess[j] \in Nat
    BY CostsAreNats
  <1>3. \A j \in is : Cost'[j] = Cost[j] /\ Excess'[j] = Excess[j]
    BY <1>1 DEF Cost, Excess
  <1>4. Cost'[i] = call.units /\ Excess'[i] = 0
    BY <1>1 DEF Cost, Excess
  <1>5. /\ SumFunctionOnSet(Cost', is) = SumFunctionOnSet(Cost, is)
        /\ SumFunctionOnSet(Excess', is) = SumFunctionOnSet(Excess, is)
    BY <1>3, SumAgrees
  <1>6. /\ SumFunctionOnSet(Cost, is) \in Nat /\ SumFunctionOnSet(Excess, is) \in Nat
    BY <1>2, SumNat
  <1>7. WithinLimit(is, limit) => WithinLimit(is, limit)'
    BY <1>5 DEF WithinLimit, Overrun
  <1>8. ASSUME SumFunctionOnSet(Cost, is) + call.units <= limit
        PROVE  WithinLimit(is \cup {i}, limit)'
    <2> DEFINE more == is \cup {i}
    <2>1. IsFiniteSet(more) /\ i \in more /\ more \ {i} = is
      BY FS_AddElement
    <2>2. \A j \in more : Cost'[j] \in Nat /\ Excess'[j] \in Nat
      BY <1>2, <1>3, <1>4
    <2> HIDE DEF more
    <2>3. SumFunctionOnSet(Cost', more) = call.units + SumFunctionOnSet(Cost, is)
      BY <2>1, <2>2, <1>4, <1>5, SumTake
    <2>4. SumFunctionOnSet(Excess', more) \in Nat
      BY <2>1, <2>2, SumNat
    <2>5. SumFunctionOnSet(Cost', more) <= limit + SumFunctionOnSet(Excess', more)
      BY <2>3, <2>4, <1>6, <1>8
    <2> QED BY <2>5 DEF WithinLimit, Overrun, more
  <1> QED BY <1>7, <1>8

(* No other operation touches a call.                                      *)
LEMMA QuietStepKeepsBudget ==
  ASSUME CallInv, CallInv', BudgetInv, UNCHANGED calls,
         policies \subseteq policies', IsFiniteSet(policies')
  PROVE  BudgetInv'
  <1>1. /\ Reservations' = Reservations /\ Cost' = Cost /\ Excess' = Excess
        /\ \A p, v : OnDay(p, v)' = OnDay(p, v) /\ InMonth(p, v)' = InMonth(p, v)
    BY DEF Reservations, Cost, Excess, OnDay, InMonth, CallsOf
  <1>2. IsFiniteSet(Reservations)' /\ CostKnown'
    BY <1>1 DEF BudgetInv, CostKnown
  <1>3. /\ policies \in SUBSET PolicyId /\ IsFiniteSet(policies)
        /\ policies' \in SUBSET PolicyId
    BY DEF BudgetInv, CallInv, ReservationTypeOK
  <1>4. ASSUME NEW is \in SUBSET Reservations, NEW p \in Principal,
               NEW field \in {"daily", "monthly"}, WithinLimit(is, Limit(p, field))
        PROVE  SumFunctionOnSet(Cost, is) <= Limit(p, field)' + SumFunctionOnSet(Excess, is)
    <2> field \in {"max_inflight", "daily", "monthly"}
      OBVIOUS
    <2>1. /\ Limit(p, field) \in Nat /\ Limit(p, field)' \in Nat
          /\ Limit(p, field) <= Limit(p, field)'
      <3>1. /\ Limit(p, field) = LimitOf(policies, p, field)
            /\ Limit(p, field)' = LimitOf(policies', p, field)
        BY DEF Limit, LimitOf
      <3> QED BY <3>1, <1>3, LimitBounds, LimitGrows
    <2>2. IsFiniteSet(is)
      BY FS_Subset DEF BudgetInv
    <2>3. SumFunctionOnSet(Cost, is) \in Nat /\ SumFunctionOnSet(Excess, is) \in Nat
      <3>1. \A i \in is : Cost[i] \in Nat /\ Excess[i] \in Nat
        BY CostsAreNats DEF CallInv, BudgetInv
      <3> QED BY <2>2, <3>1, SumNat
    <2>4. SumFunctionOnSet(Cost, is) <= Limit(p, field) + SumFunctionOnSet(Excess, is)
      BY <1>4 DEF WithinLimit, Overrun
    <2> QED BY <2>1, <2>3, <2>4
  <1>5. UsageBounded'
    <2> SUFFICES ASSUME NEW p \in Principal
                 PROVE  /\ \A v \in Days : WithinLimit(OnDay(p, v), Limit(p, "daily"))'
                        /\ \A v \in Months :
                             WithinLimit(InMonth(p, v), Limit(p, "monthly"))'
      BY DEF UsageBounded
    <2>1. ASSUME NEW v \in Days
          PROVE  WithinLimit(OnDay(p, v), Limit(p, "daily"))'
      <3>1. /\ OnDay(p, v) \in SUBSET Reservations
            /\ WithinLimit(OnDay(p, v), Limit(p, "daily"))
        BY DEF OnDay, CallsOf, BudgetInv, UsageBounded
      <3>2. SumFunctionOnSet(Cost, OnDay(p, v))
              <= Limit(p, "daily")' + SumFunctionOnSet(Excess, OnDay(p, v))
        BY <3>1, <1>4
      <3> QED BY <3>2, <1>1 DEF WithinLimit, Overrun
    <2>2. ASSUME NEW v \in Months
          PROVE  WithinLimit(InMonth(p, v), Limit(p, "monthly"))'
      <3>1. /\ InMonth(p, v) \in SUBSET Reservations
            /\ WithinLimit(InMonth(p, v), Limit(p, "monthly"))
        BY DEF InMonth, CallsOf, BudgetInv, UsageBounded
      <3>2. SumFunctionOnSet(Cost, InMonth(p, v))
              <= Limit(p, "monthly")' + SumFunctionOnSet(Excess, InMonth(p, v))
        BY <3>1, <1>4
      <3> QED BY <3>2, <1>1 DEF WithinLimit, Overrun
    <2> QED BY <2>1, <2>2
  <1> QED BY <1>2, <1>5 DEF BudgetInv

(* A call in flight becomes the settled call: its cost may change, what it is*)
(* counted under does not.                                                 *)
Settles(i, call) ==
  /\ i \in Reservations /\ calls[i].state = "reserved"
  /\ calls' = [calls EXCEPT ![i] = call]
  /\ call # None /\ call.state # "reserved" /\ call.units = calls[i].units
  /\ call.principal = calls[i].principal
  /\ call.day = calls[i].day /\ call.month = calls[i].month
  /\ call.state = "reconciled" => call.actual \in Actual

(* Each of the two settles one call, and leaves what it counts under.      *)
LEMMA SettlingSteps ==
  ASSUME CallInv, NEW i \in ReservationId, NEW p \in Principal,
         release_call(i, p) \/ \E a \in Actual : reconcile_call(i, p, a)
  PROVE  \E call : Settles(i, call)
  <1>1. i \in Reservations /\ calls[i] \in Call /\ calls[i].state = "reserved"
    BY RowShapes DEF CallInv, release_call, reconcile_call, CallsOf
  <1>2. CASE release_call(i, p)
    <2> DEFINE call == [calls[i] EXCEPT !.state = "released"]
    <2>1. calls' = [calls EXCEPT ![i] = call]
      BY <1>2 DEF release_call
    <2>2. /\ call \in Call /\ call.state = "released"
          /\ call.units = calls[i].units /\ call.principal = calls[i].principal
          /\ call.day = calls[i].day /\ call.month = calls[i].month
      BY <1>1 DEF Call
    <2> HIDE DEF call
    <2> QED BY <1>1, <2>1, <2>2, NoneAssumption DEF Settles
  <1>3. ASSUME NEW a \in Actual, reconcile_call(i, p, a)
        PROVE  \E call : Settles(i, call)
    <2> DEFINE call == Reconciled(calls[i], a)
    <2>1. calls' = [calls EXCEPT ![i] = call]
      BY <1>3 DEF reconcile_call
    <2>2. /\ call \in Call /\ call.state = "reconciled" /\ call.actual = a
          /\ call.units = calls[i].units /\ call.principal = calls[i].principal
          /\ call.day = calls[i].day /\ call.month = calls[i].month
      BY <1>1 DEF Call, Reconciled
    <2> HIDE DEF call
    <2> QED BY <1>1, <2>1, <2>2, NoneAssumption DEF Settles
  <1> QED BY <1>2, <1>3

(* reconcile_call and release_call.                                        *)
LEMMA SettleKeepsBudget ==
  ASSUME CallInv, CallInv', BudgetInv, NEW i \in ReservationId, NEW p \in Principal,
         release_call(i, p) \/ \E a \in Actual : reconcile_call(i, p, a)
  PROVE  BudgetInv'
  <1>0. PICK call : Settles(i, call)
    BY SettlingSteps
  <1>1. /\ calls' = [calls EXCEPT ![i] = call] /\ i \in Reservations
        /\ calls[i].state = "reserved" /\ call # None
        /\ call.state # "reserved" /\ call.units = calls[i].units
        /\ call.principal = calls[i].principal
        /\ call.day = calls[i].day /\ call.month = calls[i].month
        /\ call.state = "reconciled" => call.actual \in Actual
    BY <1>0 DEF Settles
  <1>2. /\ \A j \in Reservations : calls'[j] = IF j = i THEN call ELSE calls[j]
        /\ Reservations' = Reservations
    BY <1>1 DEF CallInv, ReservationTypeOK, Reservations
  <1>3. \A q, v : OnDay(q, v)' = OnDay(q, v) /\ InMonth(q, v)' = InMonth(q, v)
    BY <1>1, <1>2 DEF OnDay, InMonth, CallsOf
  <1>4. CostKnown'
    BY <1>1, <1>2 DEF CostKnown, BudgetInv
  <1>5. policies' = policies
    BY DEF release_call, reconcile_call
  <1>6. ASSUME NEW is \in SUBSET Reservations, NEW q, NEW field \in {"daily", "monthly"},
               WithinLimit(is, Limit(q, field))
        PROVE  SumFunctionOnSet(Cost', is) <= Limit(q, field) + SumFunctionOnSet(Excess', is)
    <2>1. Limit(q, field) \in Nat
      BY LimitIs, LimitBounds DEF BudgetInv, CallInv, ReservationTypeOK
    <2> DEFINE limit == Limit(q, field)
    <2>2. IsFiniteSet(is)
      BY FS_Subset DEF BudgetInv
    <2>3. ReservationTypeOK /\ ReservationTypeOK' /\ CostKnown
      BY DEF CallInv, BudgetInv
    <2>4. \A n \in Nat : WithinLimit(is, n) => WithinLimit(is, n)'
      BY <1>1, <1>2, <1>4, <2>2, <2>3, SettlingKeepsLimit
    <2>5. \A n \in Nat : WithinLimit(is, n) =>
            SumFunctionOnSet(Cost', is) <= n + SumFunctionOnSet(Excess', is)
      BY <2>4 DEF WithinLimit, Overrun
    <2> QED BY <1>6, <2>1, <2>5
  <1>7. UsageBounded'
    <2> SUFFICES ASSUME NEW q \in Principal
                 PROVE  /\ \A v \in Days : WithinLimit(OnDay(q, v), Limit(q, "daily"))'
                        /\ \A v \in Months :
                             WithinLimit(InMonth(q, v), Limit(q, "monthly"))'
      BY DEF UsageBounded
    <2>0. \A field : Limit(q, field)' = Limit(q, field)
      BY <1>5 DEF Limit
    <2>1. ASSUME NEW v \in Days
          PROVE  WithinLimit(OnDay(q, v), Limit(q, "daily"))'
      <3>1. /\ OnDay(q, v) \in SUBSET Reservations
            /\ WithinLimit(OnDay(q, v), Limit(q, "daily"))
        BY DEF OnDay, CallsOf, BudgetInv, UsageBounded
      <3>2. SumFunctionOnSet(Cost', OnDay(q, v))
              <= Limit(q, "daily") + SumFunctionOnSet(Excess', OnDay(q, v))
        BY <3>1, <1>6
      <3> QED BY <3>2, <1>3, <2>0 DEF WithinLimit, Overrun
    <2>2. ASSUME NEW v \in Months
          PROVE  WithinLimit(InMonth(q, v), Limit(q, "monthly"))'
      <3>1. /\ InMonth(q, v) \in SUBSET Reservations
            /\ WithinLimit(InMonth(q, v), Limit(q, "monthly"))
        BY DEF InMonth, CallsOf, BudgetInv, UsageBounded
      <3>2. SumFunctionOnSet(Cost', InMonth(q, v))
              <= Limit(q, "monthly") + SumFunctionOnSet(Excess', InMonth(q, v))
        BY <3>1, <1>6
      <3> QED BY <3>2, <1>3, <2>0 DEF WithinLimit, Overrun
    <2> QED BY <2>1, <2>2
  <1> QED BY <1>2, <1>4, <1>5, <1>7 DEF BudgetInv

(* reserve_call: HasRoom read the sums in the same transaction.            *)
LEMMA ReserveKeepsBudget ==
  ASSUME CallInv, BudgetInv, NEW i \in ReservationId, NEW policy \in PolicyId,
         NEW p \in Principal, NEW run \in Run, NEW scope \in Scope, NEW u \in Units,
         reserve_call(i, policy, p, run, scope, u)
  PROVE  BudgetInv'
  <1> DEFINE call == [policy |-> policy, principal |-> p, run |-> run,
                      scope |-> scope, units |-> u, state |-> "reserved",
                      actual |-> None, day |-> Day(clock), month |-> Month(clock)]
  <1>0. /\ i \notin Reservations /\ calls' = [calls EXCEPT ![i] = call]
        /\ policies' = policies /\ policy \in policies
        /\ PolicyOf[policy].principal = p
    BY DEF reserve_call, Authorizes
  <1>1. /\ u \in Nat /\ call.units = u /\ call.state = "reserved" /\ call.principal = p
        /\ call.day = Day(clock) /\ call.month = Month(clock)
    BY ReservationAssumption
  <1>2. call # None
    <2>1. clock \in Time
      BY DEF CallInv, PrincipalTypeOK, Time
    <2>2. call \in Call
      BY <2>1, ReservationAssumption DEF Call
    <2> QED BY <2>2, NoneAssumption
  <1> HIDE DEF call
  <1>3. /\ \A j \in Reservations : calls'[j] = calls[j]
        /\ calls'[i] = call
        /\ Reservations' = Reservations \cup {i}
    BY <1>0, <1>2 DEF CallInv, ReservationTypeOK, Reservations
  <1>4. IsFiniteSet(Reservations') /\ CostKnown'
    BY <1>1, <1>3, FS_AddElement DEF BudgetInv, CostKnown
  <1>5. \A q, v : /\ OnDay(q, v)' = IF q = p /\ v = Day(clock)
                                    THEN OnDay(q, v) \cup {i} ELSE OnDay(q, v)
                  /\ InMonth(q, v)' = IF q = p /\ v = Month(clock)
                                      THEN InMonth(q, v) \cup {i} ELSE InMonth(q, v)
    BY <1>1, <1>3 DEF OnDay, InMonth, CallsOf
  <1>6. \A q, field : Limit(q, field)' = Limit(q, field)
    BY <1>0 DEF Limit
  <1>7. /\ \A q : Limit(q, "daily") \in Nat /\ Limit(q, "monthly") \in Nat
        /\ PolicyOf[policy].daily \in Nat /\ PolicyOf[policy].daily <= Limit(p, "daily")
        /\ PolicyOf[policy].monthly \in Nat
        /\ PolicyOf[policy].monthly <= Limit(p, "monthly")
    <2>1. IsFiniteSet(policies) /\ policies \in SUBSET PolicyId
      BY DEF BudgetInv, CallInv, ReservationTypeOK
    <2>2. ASSUME NEW q, NEW field \in {"daily", "monthly"}
          PROVE  Limit(q, field) \in Nat
      <3>1. LimitOf(policies, q, field) \in Nat BY <2>1, LimitBounds
      <3> QED BY <3>1, LimitIs, Zenon
    <2>3. ASSUME NEW field \in {"daily", "monthly"}
          PROVE  /\ PolicyOf[policy][field] \in Nat
                 /\ PolicyOf[policy][field] <= Limit(p, field)
      <3>1. /\ PolicyOf[policy][field] \in Nat
            /\ PolicyOf[policy][field] <= LimitOf(policies, p, field)
        BY <1>0, <2>1, LimitBounds
      <3> QED BY <3>1, LimitIs, Zenon
    <2>4. /\ \A q : Limit(q, "daily") \in Nat /\ Limit(q, "monthly") \in Nat
          /\ PolicyOf[policy]["daily"] \in Nat
          /\ PolicyOf[policy]["daily"] <= Limit(p, "daily")
          /\ PolicyOf[policy]["monthly"] \in Nat
          /\ PolicyOf[policy]["monthly"] <= Limit(p, "monthly")
      BY <2>2, <2>3, Zenon
    <2> QED BY <2>4
  <1>8. ASSUME NEW is \in SUBSET Reservations, NEW limit \in Nat
        PROVE  /\ SumFunctionOnSet(Cost, is) \in Nat
               /\ WithinLimit(is, limit) => WithinLimit(is, limit)'
               /\ SumFunctionOnSet(Cost, is) + u <= limit
                    => WithinLimit(is \cup {i}, limit)'
    <2>1. IsFiniteSet(is)
      BY FS_Subset DEF BudgetInv
    <2>2. ReservationTypeOK /\ CostKnown
      BY DEF CallInv, BudgetInv
    <2>3. \A j \in is : Cost[j] \in Nat
      BY <2>2, CostsAreNats
    <2> QED BY <1>0, <1>1, <1>2, <2>1, <2>2, <2>3, AddingKeepsLimit, SumNat
  <1>9. ASSUME NEW is \in SUBSET Reservations, NEW limit \in Nat
        PROVE  /\ WithinLimit(is, limit) =>
                    SumFunctionOnSet(Cost', is) <= limit + SumFunctionOnSet(Excess', is)
               /\ SumFunctionOnSet(Cost, is) + u <= limit =>
                    SumFunctionOnSet(Cost', is \cup {i})
                      <= limit + SumFunctionOnSet(Excess', is \cup {i})
    BY <1>8 DEF WithinLimit, Overrun
  <1>10. UsageBounded'
    <2> SUFFICES ASSUME NEW q \in Principal
                 PROVE  /\ \A v \in Days : WithinLimit(OnDay(q, v), Limit(q, "daily"))'
                        /\ \A v \in Months :
                             WithinLimit(InMonth(q, v), Limit(q, "monthly"))'
      BY DEF UsageBounded
    <2>1. ASSUME NEW v \in Days
          PROVE  WithinLimit(OnDay(q, v), Limit(q, "daily"))'
      <3> DEFINE is == OnDay(q, v)
      <3>1. is \in SUBSET Reservations /\ WithinLimit(is, Limit(q, "daily"))
        BY DEF OnDay, CallsOf, BudgetInv, UsageBounded
      <3>2. CASE q = p /\ v = Day(clock)
        <4>1. SumFunctionOnSet(Cost, is) + u <= PolicyOf[policy].daily
          BY <3>2 DEF reserve_call, HasRoom, Daily, OnDay
        <4>s. /\ SumFunctionOnSet(Cost, is) \in Nat /\ Limit(q, "daily") \in Nat
              /\ PolicyOf[policy].daily <= Limit(q, "daily")
          BY <3>1, <3>2, <1>7, <1>8
        <4>2. SumFunctionOnSet(Cost, is) + u <= Limit(q, "daily")
          BY <4>1, <4>s, <1>1, <1>7
        <4>3. SumFunctionOnSet(Cost', is \cup {i})
                <= Limit(q, "daily") + SumFunctionOnSet(Excess', is \cup {i})
          BY <3>1, <4>2, <1>7, <1>9
        <4> QED BY <3>2, <4>3, <1>5, <1>6 DEF WithinLimit, Overrun
      <3>3. CASE ~(q = p /\ v = Day(clock))
        <4>1. SumFunctionOnSet(Cost', is)
                <= Limit(q, "daily") + SumFunctionOnSet(Excess', is)
          BY <3>1, <1>7, <1>9
        <4> QED BY <3>3, <4>1, <1>5, <1>6 DEF WithinLimit, Overrun
      <3> QED BY <3>2, <3>3
    <2>2. ASSUME NEW v \in Months
          PROVE  WithinLimit(InMonth(q, v), Limit(q, "monthly"))'
      <3> DEFINE is == InMonth(q, v)
      <3>1. is \in SUBSET Reservations /\ WithinLimit(is, Limit(q, "monthly"))
        BY DEF InMonth, CallsOf, BudgetInv, UsageBounded
      <3>2. CASE q = p /\ v = Month(clock)
        <4>1. SumFunctionOnSet(Cost, is) + u <= PolicyOf[policy].monthly
          BY <3>2 DEF reserve_call, HasRoom, Monthly, InMonth
        <4>s. /\ SumFunctionOnSet(Cost, is) \in Nat /\ Limit(q, "monthly") \in Nat
              /\ PolicyOf[policy].monthly <= Limit(q, "monthly")
          BY <3>1, <3>2, <1>7, <1>8
        <4>2. SumFunctionOnSet(Cost, is) + u <= Limit(q, "monthly")
          BY <4>1, <4>s, <1>1, <1>7
        <4>3. SumFunctionOnSet(Cost', is \cup {i})
                <= Limit(q, "monthly") + SumFunctionOnSet(Excess', is \cup {i})
          BY <3>1, <4>2, <1>7, <1>9
        <4> QED BY <3>2, <4>3, <1>5, <1>6 DEF WithinLimit, Overrun
      <3>3. CASE ~(q = p /\ v = Month(clock))
        <4>1. SumFunctionOnSet(Cost', is)
                <= Limit(q, "monthly") + SumFunctionOnSet(Excess', is)
          BY <3>1, <1>7, <1>9
        <4> QED BY <3>3, <4>1, <1>5, <1>6 DEF WithinLimit, Overrun
      <3> QED BY <3>2, <3>3
    <2> QED BY <2>1, <2>2
  <1> QED BY <1>0, <1>4, <1>10 DEF BudgetInv

(* Nothing is reserved.                                                    *)
LEMMA BudgetInit == ServiceStoreInit => BudgetInv
  <1> SUFFICES ASSUME ServiceStoreInit
               PROVE  BudgetInv
    OBVIOUS
  <1>1. policies = {} /\ Reservations = {}
    BY DEF ServiceStoreInit, ReservationInit, Reservations
  <1>2. IsFiniteSet(policies) /\ IsFiniteSet(Reservations) /\ CostKnown
    BY <1>1, FS_EmptySet DEF CostKnown
  <1>3. \A p, v : OnDay(p, v) = {} /\ InMonth(p, v) = {}
    BY <1>1 DEF OnDay, InMonth, CallsOf
  <1>4. \A p : Limit(p, "daily") \in Nat /\ Limit(p, "monthly") \in Nat
    BY <1>1, <1>2, LimitIs, LimitBounds
  <1>5. SumFunctionOnSet(Cost, {}) = 0 /\ SumFunctionOnSet(Excess, {}) = 0
    BY SumEmpty
  <1>6. UsageBounded
    BY <1>3, <1>4, <1>5 DEF UsageBounded, WithinLimit, Overrun
  <1> QED BY <1>2, <1>6 DEF BudgetInv

(* Every step of the store.                                                *)
LEMMA BudgetStep ==
  CallInv /\ CallInv' /\ BudgetInv /\ [ServiceStoreNext]_storeVars => BudgetInv'
  <1> SUFFICES ASSUME CallInv, CallInv', BudgetInv, [ServiceStoreNext]_storeVars
               PROVE  BudgetInv'
    OBVIOUS
  <1>1. CASE calls' # calls
    <2>1. PICK i \in ReservationId, p \in Principal :
            \/ \E policy \in PolicyId, run \in Run, scope \in Scope, u \in Units :
                 reserve_call(i, policy, p, run, scope, u)
            \/ \E a \in Actual : reconcile_call(i, p, a)
            \/ release_call(i, p)
      BY <1>1, CallsChange
    <2>2. ASSUME NEW policy \in PolicyId, NEW run \in Run, NEW scope \in Scope,
                 NEW u \in Units, reserve_call(i, policy, p, run, scope, u)
          PROVE  BudgetInv'
      BY <2>2, ReserveKeepsBudget
    <2>3. CASE release_call(i, p) \/ \E a \in Actual : reconcile_call(i, p, a)
      BY <2>3, SettleKeepsBudget
    <2> QED BY <2>1, <2>2, <2>3
  <1>2. CASE UNCHANGED calls
    <2>1. policies \subseteq policies' /\ IsFiniteSet(policies')
      <3>0. IsFiniteSet(policies)
        BY DEF BudgetInv
      <3>1. \/ policies' = policies
            \/ \E policy \in PolicyId : put_policy(policy)
        <4>1. ReservationNext \/ UNCHANGED callVars
          BY DEF ServiceStoreNext, storeVars
        <4>2. CASE ReservationNext
          <5>1. ASSUME NEW policy \in PolicyId, revoke_policy(policy)
                PROVE  policies' = policies
            BY <5>1 DEF revoke_policy
          <5>2. ASSUME NEW run \in Run,
                       \/ \E q \in Principal, key \in Key : bind_run(q, key, run)
                       \/ abandon_run_binding(run)
                PROVE  policies' = policies
            BY <5>2 DEF bind_run, abandon_run_binding
          <5>3. ASSUME NEW i \in ReservationId, NEW q \in Principal,
                       \/ \E policy \in PolicyId, run \in Run, scope \in Scope, u \in Units :
                            reserve_call(i, policy, q, run, scope, u)
                       \/ \E a \in Actual : reconcile_call(i, q, a)
                       \/ release_call(i, q)
                PROVE  policies' = policies
            BY <5>3 DEF reserve_call, reconcile_call, release_call
          <5> QED BY <4>2, <5>1, <5>2, <5>3 DEF ReservationNext
        <4> QED BY <4>1, <4>2 DEF callVars
      <3>2. ASSUME NEW policy \in PolicyId, put_policy(policy)
            PROVE  policies \subseteq policies' /\ IsFiniteSet(policies')
        BY <3>0, <3>2, FS_AddElement DEF put_policy
      <3> QED BY <3>0, <3>1, <3>2
    <2> QED BY <1>2, <2>1, QuietStepKeepsBudget
  <1> QED BY <1>1, <1>2

(* The invariant is the property, sum by sum.                              *)
LEMMA BudgetHolds == CallInv /\ BudgetInv => WithinBudget
  <1> SUFFICES ASSUME CallInv, BudgetInv, NEW p \in Principal
               PROVE  /\ Cardinality(InflightCalls(p)) <= Limit(p, "max_inflight")
                      /\ \A day \in Days :
                           Daily(p, day) <= Limit(p, "daily") + Overrun(OnDay(p, day))
                      /\ \A month \in Months :
                           Monthly(p, month) <= Limit(p, "monthly")
                                                  + Overrun(InMonth(p, month))
    BY DEF WithinBudget, InflightCalls, Days, Months, OnDay, InMonth
  <1>1. Cardinality(InflightCalls(p)) <= Limit(p, "max_inflight")
    <2>1. /\ Limit(p, "max_inflight") \in Nat
          /\ \A policy \in policies : PolicyOf[policy].principal = p =>
               /\ PolicyOf[policy].max_inflight \in Nat
               /\ PolicyOf[policy].max_inflight <= Limit(p, "max_inflight")
      BY LimitIs, LimitBounds DEF CallInv, ReservationTypeOK, BudgetInv
    <2>2. Cardinality(InflightCalls(p)) \in Nat
      BY FS_CardinalityType DEF CallInv, InflightBounded
    <2>3. CASE InflightCalls(p) = {}
      BY <2>1, <2>3, FS_EmptySet
    <2>4. ASSUME NEW policy \in policies, PolicyOf[policy].principal = p,
                 Cardinality(InflightCalls(p)) <= PolicyOf[policy].max_inflight
          PROVE  Cardinality(InflightCalls(p)) <= Limit(p, "max_inflight")
      BY <2>1, <2>2, <2>4
    <2> QED BY <2>3, <2>4 DEF CallInv, InflightBounded
  <1>2. ASSUME NEW day \in Days
        PROVE  Daily(p, day) <= Limit(p, "daily") + Overrun(OnDay(p, day))
    BY DEF BudgetInv, UsageBounded, WithinLimit, Days, Daily, OnDay
  <1>3. ASSUME NEW month \in Months
        PROVE  Monthly(p, month) <= Limit(p, "monthly") + Overrun(InMonth(p, month))
    BY DEF BudgetInv, UsageBounded, WithinLimit, Months, Monthly, InMonth
  <1> QED BY <1>1, <1>2, <1>3

(* On every day and in every month a principal's calls cost no more than a *)
(* limit it was given and what reconcile_call booked beyond the reserved   *)
(* units: a call settled after midnight still counts where it was reserved,*)
(* and a restart, a new policy or an abandoned binding frees no units.     *)
THEOREM BudgetKept == ServiceStoreSpec => []WithinBudget
  <1>1. ServiceStoreInit => CallInv /\ BudgetInv
    BY CallInit, BudgetInit
  <1>2. (CallInv /\ BudgetInv) /\ [ServiceStoreNext]_storeVars => (CallInv /\ BudgetInv)'
    BY CallStep, BudgetStep
  <1> QED BY <1>1, <1>2, BudgetHolds, PTL DEF ServiceStoreSpec
----------------------------------------------------------------------------
(* A reservation is one lease, in the part of its state.                   *)
LEMMA LeaseParts ==
  ASSUME CallInv
  PROVE  /\ CallsIn("reserved") \cup CallsIn("reconciled") \cup CallsIn("released")
              = Reservations
         /\ \A s : \A i \in CallsIn(s) : i \in Reservations /\ calls[i].state = s
  <1>1. \A i \in Reservations :
          calls[i].state \in {"reserved", "reconciled", "released"}
    BY RowShapes DEF CallInv, Call
  <1> QED BY <1>1 DEF CallsIn

(* reserve_call opens a lease nobody had.                                  *)
LEMMA ReserveOpens ==
  ASSUME CallInv, NEW i \in ReservationId, NEW policy \in PolicyId,
         NEW p \in Principal, NEW run \in Run, NEW scope \in Scope, NEW u \in Units,
         reserve_call(i, policy, p, run, scope, u)
  PROVE  Leases!Open
  <1> DEFINE call == [policy |-> policy, principal |-> p, run |-> run,
                      scope |-> scope, units |-> u, state |-> "reserved",
                      actual |-> None, day |-> Day(clock), month |-> Month(clock)]
  <1>1. i \notin Reservations /\ calls' = [calls EXCEPT ![i] = call]
    BY DEF reserve_call
  <1>2. call # None /\ call.state = "reserved"
    <2>1. clock \in Time
      BY DEF CallInv, PrincipalTypeOK, Time
    <2>2. call \in Call
      BY <2>1, ReservationAssumption DEF Call
    <2> QED BY <2>2, NoneAssumption
  <1> HIDE DEF call
  <1>3. /\ \A j \in Reservations : calls'[j] = calls[j]
        /\ calls'[i] = call
        /\ Reservations' = Reservations \cup {i}
    BY <1>1, <1>2 DEF CallInv, ReservationTypeOK, Reservations
  <1>4. /\ CallsIn("reserved")' = CallsIn("reserved") \cup {i}
        /\ CallsIn("reconciled")' = CallsIn("reconciled")
        /\ CallsIn("released")' = CallsIn("released")
    BY <1>1, <1>2, <1>3 DEF CallsIn
  <1> QED BY <1>1, <1>4, LeaseParts DEF Leases!Open

(* reconcile_call and release_call close an open lease.                    *)
LEMMA SettlingCloses ==
  ASSUME CallInv, NEW i, NEW call, Settles(i, call),
         call.state \in {"reconciled", "released"}
  PROVE  Leases!Charge \/ Leases!Refund
  <1>1. /\ i \in Reservations /\ calls[i].state = "reserved"
        /\ calls' = [calls EXCEPT ![i] = call] /\ call # None
    BY DEF Settles
  <1>2. /\ \A j \in Reservations : j # i => calls'[j] = calls[j]
        /\ calls'[i] = call /\ Reservations' = Reservations
    BY <1>1 DEF CallInv, ReservationTypeOK, Reservations
  <1>3. i \in CallsIn("reserved")
        /\ CallsIn("reserved")' = CallsIn("reserved") \ {i}
    BY <1>1, <1>2 DEF CallsIn
  <1>4. CASE call.state = "reconciled"
    <2>1. /\ CallsIn("reconciled")' = CallsIn("reconciled") \cup {i}
          /\ CallsIn("released")' = CallsIn("released")
      BY <1>1, <1>2, <1>4 DEF CallsIn
    <2> QED BY <1>3, <2>1 DEF Leases!Charge
  <1>5. CASE call.state = "released"
    <2>1. /\ CallsIn("released")' = CallsIn("released") \cup {i}
          /\ CallsIn("reconciled")' = CallsIn("reconciled")
      BY <1>1, <1>2, <1>5 DEF CallsIn
    <2> QED BY <1>3, <2>1 DEF Leases!Refund
  <1> QED BY <1>4, <1>5

(* The table keeps the contract of CallLeases, whoever calls: an id is     *)
(* reserved once, for a call of one run, and settled once, for good.       *)
THEOREM StoreServesLeases == ServiceStoreSpec => ServesLeases
  <1>1. ServiceStoreInit => Leases!LeaseInit
    BY DEF ServiceStoreInit, ReservationInit, Leases!LeaseInit, CallsIn, Reservations
  <1>2. CallInv /\ [ServiceStoreNext]_storeVars
          => [Leases!LeaseNext]_(Leases!leaseVars)
    <2> SUFFICES ASSUME CallInv, [ServiceStoreNext]_storeVars
                 PROVE  Leases!LeaseNext \/ UNCHANGED Leases!leaseVars
      OBVIOUS
    <2>1. CASE UNCHANGED calls
      BY <2>1 DEF Leases!leaseVars, CallsIn, Reservations
    <2>2. CASE calls' # calls
      <3>1. PICK i \in ReservationId, p \in Principal :
              \/ \E policy \in PolicyId, run \in Run, scope \in Scope, u \in Units :
                   reserve_call(i, policy, p, run, scope, u)
              \/ \E a \in Actual : reconcile_call(i, p, a)
              \/ release_call(i, p)
        BY <2>2, CallsChange
      <3>2. CASE \E policy \in PolicyId, run \in Run, scope \in Scope, u \in Units :
                   reserve_call(i, policy, p, run, scope, u)
        BY <3>2, ReserveOpens DEF Leases!LeaseNext
      <3>3. CASE release_call(i, p) \/ \E a \in Actual : reconcile_call(i, p, a)
        <4>1. PICK call : Settles(i, call)
          BY <3>3, SettlingSteps
        <4>2. call.state \in {"reconciled", "released"}
          <5>1. calls'[i] = call /\ i \in Reservations'
            BY <4>1 DEF Settles, CallInv, ReservationTypeOK, Reservations
          <5>2. CallInv'
            BY <3>3, SettlePreserves
          <5>3. call \in Call
            BY <5>1, <5>2 DEF CallInv, ReservationTypeOK, Reservations
          <5> QED BY <4>1, <5>3 DEF Call, Settles
        <4> QED BY <4>1, <4>2, SettlingCloses DEF Leases!LeaseNext
      <3> QED BY <3>1, <3>2, <3>3
    <2> QED BY <2>1, <2>2
  <1>3. ServiceStoreSpec => Leases!LeaseSpec
    BY <1>1, <1>2, CallInvHolds, PTL DEF ServiceStoreSpec, Leases!LeaseSpec
  <1> QED BY <1>3, SettledStays DEF ServesLeases

=============================================================================
