---------------------------- MODULE Authorization ----------------------------
(***************************************************************************)
(* What a role may do with products: a table of permissions and a policy   *)
(* of scopes, one per permission.  The product routes ask both.            *)
(***************************************************************************)
EXTENDS Integers

Roles == {"admin", "buyer", "customer"}
Permissions == {"create", "list", "read", "update", "delete"}

\* A product, as far as scopes look at it; its owner may be unknown (0).
Product == [id : Nat, owner : Nat, enabled : BOOLEAN]

ResolvePermissions(role) ==
  IF role = "customer" THEN {"list", "read"}
  ELSE IF role \in Roles THEN Permissions
  ELSE {}

-----------------------------------------------------------------------------
All == [kind |-> "all"]
Active == [kind |-> "active"]
None == [kind |-> "none"]
Owner(id) == [kind |-> "owner", owner |-> id]
Specific(ids) == [kind |-> "specific", ids |-> ids]

NoAccess == [p \in Permissions |-> None]
ReadOnly == [p \in Permissions |-> IF p \in {"list", "read"} THEN All ELSE None]

\* The scope of each permission.  The mutant forgets the customers, who then
\* fall through to no access.
AccessOfUsersOnly(role, id) ==
  IF role = "admin" THEN [p \in Permissions |-> All]
  ELSE IF role = "buyer" /\ id > 0
    THEN [p \in Permissions |-> IF p \in {"list", "read"} THEN All ELSE Owner(id)]
  ELSE NoAccess
ResolveProductAccess(role, id) ==
  IF role = "admin" THEN [p \in Permissions |-> All]
  ELSE IF role = "buyer" /\ id > 0
    THEN [p \in Permissions |-> IF p \in {"list", "read"} THEN All ELSE Owner(id)]
  ELSE IF role = "customer" THEN ReadOnly
  ELSE NoAccess

MatchesProduct(product, scope) ==
  \/ scope.kind = "all"
  \/ scope.kind = "active" /\ product.enabled
  \/ scope.kind = "owner" /\ product.owner = scope.owner
  \/ scope.kind = "specific" /\ product.id \in scope.ids

\* There is no create scope for single products.
MatchesCreate(owner, scope) ==
  \/ scope.kind = "all"
  \/ scope.kind = "owner" /\ owner = scope.owner
=============================================================================
