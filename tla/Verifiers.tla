------------------------------ MODULE Verifiers ------------------------------
(***************************************************************************)
(* The gateway's verifiers (hookguard_gateway providers/): what Stripe's,  *)
(* GitHub's, Shopify's and PayPal's decide about a request, and PayPal's   *)
(* certificate cache, which is the only state they keep.                   *)
(*                                                                         *)
(* verify is called on the event loop and does not suspend, so calls do    *)
(* not overlap; but a certificate is fetched while the clock goes on and   *)
(* PayPal may change what it serves.  A response is what is served when it *)
(* arrives.                                                                *)
(*                                                                         *)
(* A signature is who made it and whether it covers this request: its      *)
(* body, and the timestamp or transmission that goes with it.  A           *)
(* certificate stands for its key.  A request that is refused changes      *)
(* nothing, unless its certificate was fetched.                            *)
(***************************************************************************)
EXTENDS Integers, FiniteSets

CONSTANTS
  Urls,      \* values of paypal-cert-url
  Pinned,    \* those check_cert_host lets through
  Certs,     \* leaf certificates that may be served
  Chained,   \* those that chain to a trusted root
  Rsa,       \* those with an RSA key
  CertTtl,   \* CERT_TTL
  Window,    \* replay_window of the Stripe route; no check unless positive
  Captured,  \* the timestamp of one Stripe request that is sent again and again
  MaxTime    \* bound of the model: the last instant

ASSUME VerifiersAssumption ==
  /\ "none" \notin Certs
  /\ Pinned \subseteq Urls /\ Chained \subseteq Certs /\ Rsa \subseteq Certs
  /\ CertTtl \in Nat /\ Window \in Int /\ MaxTime \in Nat /\ Captured \in 0..MaxTime

VARIABLES
  now,       \* the clock
  served,    \* external: the certificate behind each url, None if it has none
  cache,     \* _CertCache._entries: [cert, at], NoEntry where there is none
  fetching,  \* the PayPal request that waits for its certificate, NoRequest if none
  fetched,   \* history: when each certificate last came from each url, -1 never
  replays,   \* history: when the captured request was first and last accepted, -1 never
  last       \* history: the signature last accepted, and when

verifiersVars == <<now, served, cache, fetching, fetched, replays, last>>

None == "none"
Secret == "secret"    \* the shared secret of the route
Garbled == [by |-> "garbled", covers |-> FALSE]  \* does not decode, or is missing
NoEntry == [cert |-> None, at |-> 0]
NoRequest == [url |-> None, sig |-> Garbled]
NoVerdict == [provider |-> None, by |-> None, covers |-> FALSE, at |-> 0]

Signature(signers) == [by : signers, covers : BOOLEAN] \union {Garbled}

VerifiersInit ==
  /\ now = 0
  /\ served = [u \in Urls |-> None]
  /\ cache = [u \in Urls |-> NoEntry]
  /\ fetching = NoRequest
  /\ fetched = [u \in Urls |-> [c \in Certs |-> -1]]
  /\ replays = [from |-> -1, to |-> -1]
  /\ last = NoVerdict

Idle == fetching = NoRequest

Accept(provider, sig) ==
  last' = [provider |-> provider, by |-> sig.by, covers |-> sig.covers, at |-> now]

-----------------------------------------------------------------------------
(* Environment *)

Tick ==
  /\ now < MaxTime
  /\ now' = now + 1
  /\ UNCHANGED <<served, cache, fetching, fetched, replays, last>>

(* Another certificate, or none, behind a url. *)
Serve(u, c) ==
  /\ served[u] # c
  /\ served' = [served EXCEPT ![u] = c]
  /\ UNCHANGED <<now, cache, fetching, fetched, replays, last>>

-----------------------------------------------------------------------------
(* Stripe, GitHub and Shopify *)

(* The digest of this request under the route's secret. *)
Matches(sig, key) == sig # Garbled /\ sig.by = key /\ sig.covers

(* Slip: timestamps ahead of the clock pass. *)
FreshUnlessPast(ts) == Window > 0 => now - ts <= Window

Fresh(ts) == Window > 0 => now - ts <= Window /\ ts - now <= Window

(* StripeVerifier.verify: any one of the candidates; those that do not      *)
(* decode are passed over.                                                  *)
Stripe(ts, sigs) ==
  /\ Idle
  /\ Fresh(ts)
  /\ \E sig \in sigs : Matches(sig, Secret) /\ Accept("stripe", sig)
  /\ replays' = IF ts # Captured THEN replays
                 ELSE [from |-> IF replays.from = -1 THEN now ELSE replays.from, to |-> now]
  /\ UNCHANGED <<now, served, cache, fetching, fetched>>

(* A digest of the body alone: no timestamp, so no window. *)
Hmac(provider, sig) ==
  /\ Idle
  /\ Matches(sig, Secret)
  /\ Accept(provider, sig)
  /\ UNCHANGED <<now, served, cache, fetching, fetched, replays>>

(* The digest in hex behind a prefix, and in base64. *)
GitHub(sig) == Hmac("github", sig)
Shopify(sig) == Hmac("shopify", sig)

-----------------------------------------------------------------------------
(* PayPal *)

(* _CertCache.get *)
Cached(u) == cache[u] # NoEntry /\ now - cache[u].at <= CertTtl

(* verify, once it has the certificate. *)
Decide(cert, sig) ==
  IF cert \in Rsa /\ Matches(sig, cert) THEN Accept("paypal", sig) ELSE UNCHANGED last

(* A hit skips the check of the host. *)
PayPalHit(u, sig) ==
  /\ Idle
  /\ Cached(u)
  /\ Decide(cache[u].cert, sig)
  /\ UNCHANGED <<now, served, cache, fetching, fetched, replays>>

(* check_cert_host comes before the fetch. *)
PayPalMiss(u, sig) ==
  /\ Idle
  /\ ~Cached(u)
  /\ u \in Pinned
  /\ fetching' = [url |-> u, sig |-> sig]
  /\ UNCHANGED <<now, served, cache, fetched, replays, last>>

(* Slip: what was fetched is cached, and only then checked. *)
FetchedUnchecked ==
  LET u == fetching.url IN
  /\ ~Idle
  /\ served[u] # None
  /\ cache' = [cache EXCEPT ![u] = [cert |-> served[u], at |-> now]]
  /\ fetched' = [fetched EXCEPT ![u][served[u]] = now]
  /\ IF served[u] \in Chained THEN Decide(served[u], fetching.sig) ELSE UNCHANGED last
  /\ fetching' = NoRequest
  /\ UNCHANGED <<now, served, replays>>

(* parse_cert_chain, then _CertCache.set. *)
Fetched ==
  LET u == fetching.url IN
  /\ ~Idle
  /\ served[u] \in Chained
  /\ cache' = [cache EXCEPT ![u] = [cert |-> served[u], at |-> now]]
  /\ fetched' = [fetched EXCEPT ![u][served[u]] = now]
  /\ Decide(served[u], fetching.sig)
  /\ fetching' = NoRequest
  /\ UNCHANGED <<now, served, replays>>

(* No answer, a status other than 200, no certificate or no trusted chain. *)
FetchFails ==
  /\ ~Idle
  /\ fetching' = NoRequest
  /\ UNCHANGED <<now, served, cache, fetched, replays, last>>

-----------------------------------------------------------------------------

VerifiersNext ==
  \/ Tick
  \/ \E u \in Urls, c \in Certs \union {None} : Serve(u, c)
  \/ \E ts \in 0..MaxTime, a, b \in Signature({Secret, "other"}) : Stripe(ts, {a, b})
  \/ \E sig \in Signature({Secret, "other"}) : GitHub(sig) \/ Shopify(sig)
  \/ \E u \in Urls, sig \in Signature(Certs) : PayPalHit(u, sig) \/ PayPalMiss(u, sig)
  \/ Fetched \/ FetchFails

VerifiersSpec == VerifiersInit /\ [][VerifiersNext]_verifiersVars

-----------------------------------------------------------------------------
(* Properties *)

(* A request that is accepted bears a signature over itself, made with the  *)
(* route's secret, and for PayPal with the key of an RSA certificate that   *)
(* chains to a trusted root and came from a pinned host no longer ago than  *)
(* CERT_TTL -- although a hit of the cache checks neither host nor chain,   *)
(* and whatever PayPal has served since.                                    *)
AcceptedIsAuthentic ==
  [][last' # last =>
       /\ last'.covers
       /\ \/ last'.provider # "paypal" /\ last'.by = Secret
          \/ /\ last'.provider = "paypal"
             /\ last'.by \in Chained \intersect Rsa
             /\ \E u \in Pinned : /\ fetched'[u][last'.by] # -1
                                  /\ now - fetched'[u][last'.by] <= CertTtl]_verifiersVars

(* "A timestamp outside the window is rejected even when the HMAC matches": *)
(* a captured request stops working; no two times at which it is accepted   *)
(* are more than two windows apart.                                         *)
ReplayBounded == Window > 0 => replays.to - replays.from <= 2 * Window
=============================================================================
