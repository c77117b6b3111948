-------------------------------- MODULE Cors --------------------------------
(***************************************************************************)
(* The CORS headers of a response (lib/cors.ts), as a function of the      *)
(* options and of the request, and what a cache may conclude from them.    *)
(*                                                                         *)
(* The origin option is one of three kinds: "any" when it is absent or     *)
(* "*", "string", or "patterns", a RegExp, `true` or a list, which stands  *)
(* for the set of origins it accepts.  A list of names is one value, as    *)
(* join() makes it.  Vary is a set.                                        *)
(***************************************************************************)
EXTENDS TLAPS

CONSTANT None  \* a header or an option that is absent

\* isOriginAllowed, when it is called.
IsOriginAllowed(option, origin) == origin \in option.accepts

AllowOrigin(option, origin) ==
  CASE option.kind = "any" -> "*"
    [] option.kind = "string" -> option.string
    [] OTHER -> IF origin # None /\ IsOriginAllowed(option, origin) THEN origin ELSE "false"

VaryOrigin(option) == IF option.kind = "any" THEN {} ELSE {"Origin"}

AllowHeaders(opts, req) ==
  IF opts.allowedHeaders # None THEN opts.allowedHeaders ELSE req.requestedHeaders

VaryHeaders(opts, req) ==
  IF opts.allowedHeaders = None /\ req.requestedHeaders # None
    THEN {"Access-Control-Request-Headers"} ELSE {}

\* What is added for OPTIONS only.
Preflight(opts, req) ==
  [methods |-> opts.methods, headers |-> AllowHeaders(opts, req), maxAge |-> opts.maxAge]

CorsHeaders(opts, req) ==
  [origin |-> AllowOrigin(opts.origin, req.origin),
   vary |-> VaryOrigin(opts.origin) \cup
              (IF req.method = "OPTIONS" THEN VaryHeaders(opts, req) ELSE {}),
   credentials |-> opts.credentials,
   exposedHeaders |-> opts.exposedHeaders,
   preflight |-> IF req.method = "OPTIONS" THEN Preflight(opts, req) ELSE None]

-----------------------------------------------------------------------------

\* To a cache, two requests are alike when they agree on what Vary names.
Alike(a, b, vary) ==
  /\ a.method = b.method
  /\ "Origin" \in vary => a.origin = b.origin
  /\ "Access-Control-Request-Headers" \in vary => a.requestedHeaders = b.requestedHeaders

\* A cache that has the answer to one request and takes Vary at its word gives
\* every request alike to it the headers the server would have given it.  The
\* exception is a preflight that names no headers: its answer depends on that,
\* and Vary does not say so (addAllowedHeaders).
THEOREM VaryTellsAll ==
  ASSUME NEW opts, NEW a, NEW b,
         Alike(a, b, CorsHeaders(opts, a).vary),
         a.method = "OPTIONS" => opts.allowedHeaders # None \/ a.requestedHeaders # None
  PROVE  CorsHeaders(opts, b) = CorsHeaders(opts, a)
<1> DEFINE vary == CorsHeaders(opts, a).vary
<1>1. a.method = b.method
  BY DEF Alike
<1>2. AllowOrigin(opts.origin, b.origin) = AllowOrigin(opts.origin, a.origin)
  <2>1. CASE opts.origin.kind = "any"
    BY <2>1 DEF AllowOrigin
  <2>2. CASE opts.origin.kind # "any"
    <3>1. "Origin" \in vary
      BY <2>2 DEF CorsHeaders, VaryOrigin
    <3>2. a.origin = b.origin
      BY <3>1 DEF Alike
    <3> QED BY <3>2
  <2> QED BY <2>1, <2>2
<1>3. CASE a.method # "OPTIONS"
  BY <1>1, <1>2, <1>3 DEF CorsHeaders
<1>4. CASE a.method = "OPTIONS"
  <2>1. /\ AllowHeaders(opts, b) = AllowHeaders(opts, a)
        /\ VaryHeaders(opts, b) = VaryHeaders(opts, a)
    <3>1. CASE opts.allowedHeaders # None
      BY <3>1 DEF AllowHeaders, VaryHeaders
    <3>2. CASE opts.allowedHeaders = None
      <4>1. "Access-Control-Request-Headers" \in vary
        BY <1>4, <3>2 DEF CorsHeaders, VaryHeaders
      <4>2. a.requestedHeaders = b.requestedHeaders
        BY <4>1 DEF Alike
      <4> QED BY <4>2 DEF AllowHeaders, VaryHeaders
    <3> QED BY <3>1, <3>2
  <2>2. Preflight(opts, b) = Preflight(opts, a)
    BY <2>1 DEF Preflight
  <2> QED BY <1>1, <1>2, <2>1, <2>2 DEF CorsHeaders
<1> QED BY <1>3, <1>4

\* With patterns, an origin is named in the answer exactly when it is accepted.
THEOREM OnlyAcceptedOrigins ==
  ASSUME NEW opts, NEW req, opts.origin.kind = "patterns",
         req.origin # None, req.origin # "false"
  PROVE  CorsHeaders(opts, req).origin = req.origin <=> IsOriginAllowed(opts.origin, req.origin)
BY DEF CorsHeaders, AllowOrigin
=============================================================================
