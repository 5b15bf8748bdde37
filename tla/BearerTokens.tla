---------------------------- MODULE BearerTokens ----------------------------
(***************************************************************************)
(* The service's bearer tokens: the tables service_bearer_tokens and       *)
(* service_bearer_token_tombstones of service_store.py, the operations     *)
(* that write them (each one write transaction, so one step), and the      *)
(* application that installs its configured tokens when it starts.  A      *)
(* token is only ever stored as the digest that verifies it.               *)
(*                                                                         *)
(* A call that raises rolls its transaction back: it changes nothing and   *)
(* is not a step here.                                                     *)
(***************************************************************************)
EXTENDS ServicePrincipals

CONSTANTS Digest,      \* digests of bearer tokens
          TokenId,     \* token_ids an administrator chooses
          Bootstrap,   \* principal -> the token_id used by _install_tokens
          Window,      \* pairs <<issued_at, expires_at>>
          LegacyRows   \* rows an older version may have left, revoked or not

ASSUME BearerAssumption ==
  /\ Bootstrap \in [Principal -> TokenId]
  /\ \A p, q \in Principal : p # q => Bootstrap[p] # Bootstrap[q]
  /\ \A w \in Window : w[1] \in Nat /\ w[2] \in Nat /\ w[1] < w[2]

Row == [token_id : TokenId, principal : Principal, digest : Digest,
        window : Window, revoked : BOOLEAN]

(* token_id is the primary key of the table and token_hash is unique.      *)
ASSUME LegacyAssumption ==
  /\ LegacyRows \subseteq Row
  /\ \A r, s \in LegacyRows :
       r.digest = s.digest \/ r.token_id = s.token_id => r = s

Tombstone == [digest : Digest, principal : Principal, token_id : TokenId,
              reason : {"revoked", "rotated"}]

VARIABLES rows,        \* service_bearer_tokens
          tombstones,  \* service_bearer_token_tombstones
          opened,      \* a ServiceStore object exists: _migrate has run
          installing,  \* tokens _install_tokens has still to rotate in
          admitted,    \* history: per principal, the digests put or rotated
                       \* in since its tokens were last rotated or revoked
          dropped,     \* history: digests that stopped verifying
          owners       \* history: digest -> principals it was stored for

tokenVars == <<rows, tombstones, opened, installing, admitted, dropped, owners>>


----------------------------------------------------------------------------

RowsOf(principal) == {r \in rows : r.principal = principal}

Digests(rs) == {r.digest : r \in rs}

_token_is_retired(digest) == \E t \in tombstones : t.digest = digest

(* INSERT OR IGNORE: the first tombstone of a digest stands.               *)
_retire_token_row(rs, reason) ==
  tombstones \cup
    {[digest |-> r.digest, principal |-> r.principal, token_id |-> r.token_id,
      reason |-> reason] : r \in {x \in rs : ~_token_is_retired(x.digest)}}

NewRow(token_id, principal, digest, window) ==
  [token_id |-> token_id, principal |-> principal, digest |-> digest,
   window |-> window, revoked |-> FALSE]

(* History of a row stored, and of rows taken out of the table.            *)
Stored(principal, digest) ==
  owners' = [owners EXCEPT ![digest] = @ \cup {principal}]

Dropped(rs) == dropped' = dropped \cup Digests(rs)

----------------------------------------------------------------------------

(* Opening the database, at the start of every service process, moves the  *)
(* revoked rows of older versions to the tombstones.                       *)
_migrate ==
  /\ ~opened
  /\ LET legacy == {r \in rows : r.revoked}
     IN  /\ tombstones' = _retire_token_row(legacy, "revoked")
         /\ rows' = rows \ legacy
  /\ opened' = TRUE
  /\ UNCHANGED <<principalVars, installing, admitted, dropped, owners>>

(* Fault: a digest that another token has already is stored again.         *)
put_bearer_token_Shared(token_id, principal, digest, window) ==
  /\ opened
  /\ ~_token_is_retired(digest)
  /\ \A r \in rows : r.token_id # token_id
  /\ rows' = rows \cup {NewRow(token_id, principal, digest, window)}
  /\ Stored(principal, digest)
  /\ admitted' = [admitted EXCEPT ![principal] = @ \cup {digest}]
  /\ UNCHANGED <<principalVars, tombstones, opened, installing, dropped>>

(* An equal row that already exists is left as it is: not a step.          *)
put_bearer_token(token_id, principal, digest, window) ==
  /\ opened
  /\ ~_token_is_retired(digest)
  /\ digest \notin Digests(rows)
  /\ \A r \in rows : r.token_id # token_id
  /\ rows' = rows \cup {NewRow(token_id, principal, digest, window)}
  /\ Stored(principal, digest)
  /\ admitted' = [admitted EXCEPT ![principal] = @ \cup {digest}]
  /\ UNCHANGED <<principalVars, tombstones, opened, installing, dropped>>

(* Fault: the digest's own row is found and the other rows are left.       *)
Superseded_KeepOnMatch(principal, digest) ==
  IF digest \in Digests(rows) THEN {} ELSE RowsOf(principal)

(* The rows a rotation retires: all of the principal's, but for the one    *)
(* that already verifies this digest.                                      *)
Superseded(principal, digest) ==
  {r \in RowsOf(principal) : r.digest # digest}

(* Fault: the rotated-out rows are deleted without a tombstone.            *)
RotateEffect_NoTombstone(token_id, principal, digest, window) ==
  LET old == Superseded(principal, digest) IN
  /\ rows' = (rows \ old) \cup
       IF digest \in Digests(rows) THEN {}
       ELSE {NewRow(token_id, principal, digest, window)}
  /\ Dropped(old) /\ UNCHANGED tombstones

(* One transaction: retire, delete, and insert unless the digest already   *)
(* verifies.                                                               *)
RotateEffect(token_id, principal, digest, window) ==
  LET old == Superseded(principal, digest) IN
  /\ tombstones' = _retire_token_row(old, "rotated")
  /\ rows' = (rows \ old) \cup
       IF digest \in Digests(rows) THEN {}
       ELSE {NewRow(token_id, principal, digest, window)}
  /\ Dropped(old)

(* Fault: a retired digest is accepted again.                              *)
MayRotate_AnyDigest(token_id, principal, digest) ==
  /\ \A r \in rows : r.digest = digest => r.principal = principal
  /\ digest \in Digests(rows) \/ \A r \in rows \ RowsOf(principal) : r.token_id # token_id

(* A digest that verifies for another principal is refused; a new row's    *)
(* token_id must not be another principal's (the primary key).             *)
MayRotate(token_id, principal, digest) ==
  /\ ~_token_is_retired(digest)
  /\ \A r \in rows : r.digest = digest => r.principal = principal
  /\ digest \in Digests(rows) \/ \A r \in rows \ RowsOf(principal) : r.token_id # token_id

Rotated(token_id, principal, digest, window) ==
  /\ MayRotate(token_id, principal, digest)
  /\ RotateEffect(token_id, principal, digest, window)
  /\ Stored(principal, digest)
  /\ admitted' = [admitted EXCEPT ![principal] = {digest}]
  /\ UNCHANGED <<principalVars, opened>>

rotate_bearer_token(token_id, principal, digest, window) ==
  /\ opened
  /\ Rotated(token_id, principal, digest, window)
  /\ UNCHANGED installing

(* revoke_bearer_token and revoke_principal_tokens on the rows they find.  *)
Revoke(rs) ==
  /\ opened /\ rs # {}
  /\ tombstones' = _retire_token_row(rs, "revoked")
  /\ rows' = rows \ rs
  /\ Dropped(rs)
  /\ admitted' = [p \in Principal |-> admitted[p] \ Digests(rs)]
  /\ UNCHANGED <<principalVars, opened, installing, owners>>

revoke_bearer_token(token_id) == Revoke({r \in rows : r.token_id = token_id})

revoke_principal_tokens(principal) == Revoke(RowsOf(principal))

----------------------------------------------------------------------------

(* CouncilApplication is given a token file per principal; it rotates them *)
(* in one after the other.  A rotation that is refused stops the service,  *)
(* and the tokens already rotated in stay.                                 *)
_install_tokens(configured) ==
  /\ opened /\ installing = {}
  /\ configured # {}
  /\ \A t, u \in configured : t.principal = u.principal => t = u
  /\ installing' = configured
  /\ UNCHANGED <<principalVars, rows, tombstones, opened, admitted, dropped,
                 owners>>

InstallNext(t, window) ==
  /\ opened /\ t \in installing
  /\ Rotated(Bootstrap[t.principal], t.principal, t.digest, window)
  /\ installing' = installing \ {t}

InstallRefused(t) ==
  /\ opened /\ t \in installing
  /\ ~MayRotate(Bootstrap[t.principal], t.principal, t.digest)
  /\ installing' = {} /\ opened' = FALSE
  /\ UNCHANGED <<principalVars, rows, tombstones, admitted, dropped, owners>>

(* The process stops, in the middle of an installation or not.             *)
Stop ==
  /\ opened
  /\ opened' = FALSE /\ installing' = {}
  /\ UNCHANGED <<principalVars, rows, tombstones, admitted, dropped, owners>>

----------------------------------------------------------------------------

(* The principal a bearer authenticates, as a set of at most one.          *)
authenticate_bearer(digest) ==
  {r.principal : r \in {x \in rows :
     /\ x.digest = digest /\ enabled[x.principal] /\ ~x.revoked
     /\ x.window[1] <= clock /\ clock < x.window[2]}}

----------------------------------------------------------------------------

(* A legacy revoked row is a digest that had stopped verifying already.    *)
BearerInit ==
  /\ rows \in {{}} \cup {LegacyRows}
  /\ tombstones = {}
  /\ opened = FALSE /\ installing = {}
  /\ admitted = [p \in Principal |->
                   {r.digest : r \in {x \in rows : x.principal = p /\ ~x.revoked}}]
  /\ dropped = {r.digest : r \in {x \in rows : x.revoked}}
  /\ owners = [d \in Digest |-> {r.principal : r \in {x \in rows : x.digest = d}}]

BearerNext ==
  \/ _migrate \/ Stop
  \/ \E i \in TokenId, p \in Principal, d \in Digest, w \in Window :
       put_bearer_token(i, p, d, w) \/ rotate_bearer_token(i, p, d, w)
  \/ \E i \in TokenId : revoke_bearer_token(i)
  \/ \E p \in Principal : revoke_principal_tokens(p)
  \/ \E c \in SUBSET [principal : Principal, digest : Digest] : _install_tokens(c)
  \/ \E t \in installing :
       InstallRefused(t) \/ \E w \in Window : InstallNext(t, w)

----------------------------------------------------------------------------

(* The type invariant, with the two uniqueness constraints of the schema.  *)
BearerTypeOK ==
  /\ rows \subseteq Row
  /\ tombstones \subseteq Tombstone
  /\ opened \in BOOLEAN
  /\ installing \subseteq [principal : Principal, digest : Digest]
  /\ admitted \in [Principal -> SUBSET Digest]
  /\ dropped \subseteq Digest
  /\ owners \in [Digest -> SUBSET Principal]
  /\ \A r, s \in rows : r.digest = s.digest \/ r.token_id = s.token_id => r = s
  /\ \A t, u \in tombstones : t.digest = u.digest => t = u

(* RetiredStaysRetired: a digest that was ever rotated out or revoked      *)
(* never authenticates anyone again, whatever is rotated, installed from   *)
(* an old token file, restarted or migrated afterwards.                    *)
RetiredStaysRetired == \A d \in dropped : authenticate_bearer(d) = {}

(* OneOwnerEver: over its whole life a digest verifies one principal only, *)
(* so what one principal's token did is never attributed to another.       *)
OneOwnerEver == \A d \in Digest : Cardinality(owners[d]) <= 1

(* OnlyAdmittedVerify: what authenticates a principal is what was put or   *)
(* rotated in since its last rotation: a rotation, also one to a digest    *)
(* that is already there, leaves no older token alive.                     *)
OnlyAdmittedVerify ==
  \A p \in Principal, d \in Digest :
    p \in authenticate_bearer(d) => d \in admitted[p]

=============================================================================
