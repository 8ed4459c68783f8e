------------------------------- MODULE Tokens -------------------------------
(***************************************************************************)
(* pkg/auth/jwt.go, internal/infrastructure/jwt and internal/domain/auth.go *)
(* : JSON Web Tokens and roles.  There are two kinds of tokens, access     *)
(* tokens with the claims of domain.JWTClaims and refresh tokens with the  *)
(* standard ones; both are signed with the same key.  A token is the       *)
(* record of the claims of either kind: reading one as the other kind      *)
(* finds Go's zero value where the claim is missing.  JWTClaims has "exp"  *)
(* and "iat" besides claims of its own, so an access token read as a       *)
(* refresh token has both.                                                 *)
(*                                                                         *)
(* A time is a number of seconds; an operation that reads the clock more   *)
(* than once takes an argument for each reading that matters.              *)
(*                                                                         *)
(* Left out: email and user name, the encoding, TokenPair's expiry.        *)
(***************************************************************************)
EXTENDS Integers, FiniteSets

CONSTANTS
  Users,     \* what domain.AuthUser holds of the users: id, company, role, roles
  Secret,    \* the key of the configuration
  NoSecret   \* any other

\* Go's zero value of a text.
Blank == ""

\* The user of a token that has no claims about one.
ZeroUser == [id |-> Blank, company |-> Blank, role |-> Blank, roles |-> {}]

ASSUME TokensAssumption ==
  /\ \A u \in Users : DOMAIN u = DOMAIN ZeroUser /\ u.id # Blank
  /\ \A u, v \in Users : u.id = v.id => u = v
  /\ Secret # NoSecret

\* GenerateToken, GenerateRefreshToken: at time t, for so long.
AccessToken(u, t, expiry) ==
  [secret |-> Secret, user |-> u, issuedAt |-> t, expiresAt |-> t + expiry,
   iat |-> t, exp |-> t + expiry, nbf |-> 0, subject |-> Blank]

RefreshToken(u, t, expiry) ==
  [secret |-> Secret, user |-> ZeroUser, issuedAt |-> 0, expiresAt |-> 0,
   iat |-> t, exp |-> t + expiry, nbf |-> t, subject |-> u.id]

\* GenerateTokenPair.
TokenPair(u, t, expiry, refreshExpiry) ==
  [access |-> AccessToken(u, t, expiry), refresh |-> RefreshToken(u, t, refreshExpiry)]

----------------------------------------------------------------------------
(* JWTService.ValidateToken: an access token.                              *)

\* What the parser asks of the claims.
Valid(claims, t) == claims.expiresAt >= t

IsValid(claims, t) == claims.expiresAt > t /\ claims.issuedAt <= t

IsTokenExpired(claims, t) == t > claims.expiresAt

\* Fault: the claims are trusted once the signature is right.
ValidateSignature(token, t1, t2, t3) == token.secret = Secret

\* The parser, the manager and the service read the clock in this order.
ValidateToken(token, t1, t2, t3) ==
  /\ token.secret = Secret
  /\ Valid(token, t1)
  /\ IsValid(token, t2)
  /\ ~IsTokenExpired(token, t3)

----------------------------------------------------------------------------
(* JWTManager.RefreshToken.                                                *)

\* The standard claims: what is 0 is not there and not looked at.
StandardValid(claims, t) ==
  /\ claims.exp # 0 => t < claims.exp
  /\ claims.iat # 0 => claims.iat <= t
  /\ claims.nbf # 0 => claims.nbf <= t

ValidateRefreshToken(token, t) == token.secret = Secret /\ StandardValid(token, t)

\* Fault: the user the token is for is not compared.
RenewsAnybody(token, u, t) == ValidateRefreshToken(token, t)

\* Whether the caller that says it is u gets a new pair for this token.
Renews(token, u, t) == ValidateRefreshToken(token, t) /\ token.subject = u.id

----------------------------------------------------------------------------
(* Roles, and what an instance is told of the user.                        *)

HasRole(u, role) == u.role = role \/ role \in u.roles

ValidateRole(u, required) == required = {} \/ \E role \in required : HasRole(u, role)

\* X-User-ID, X-Company-ID and X-User-Role.
CreateAuthHeaders(u) == [id |-> u.id, company |-> u.company, role |-> u.role]
=============================================================================
