------------------------------ MODULE CdnURLFor ------------------------------
(***************************************************************************)
(* The tencentcdn storage middleware                                       *)
(* (distribution/registry/storage/driver/middleware/tencentcdn/            *)
(* middleware.go).  The registry constructs it once from its options       *)
(* (newBceCDNStorageMiddleware), then asks it for the URL of a blob on     *)
(* every redirected pull (URLFor): a URL on the CDN base signed with the   *)
(* configured duration, or, on a backend the middleware does not           *)
(* support, the backend's own URL.  Option values are abstracted to what   *)
(* the parser tells apart.                                                 *)
(***************************************************************************)
EXTENDS Naturals

CONSTANTS
    OptionSets,     \* the option maps the registry configuration may give
    Drivers         \* names of the wrapped storage driver

\* Option values: a base URL has a scheme ("withScheme"), has none
\* ("noScheme") or is refused by url.Parse ("unparsable"); a duration is a
\* time.Duration, a string ParseDuration accepts as a positive
\* ("validString") or as a zero or negative duration ("nonPositiveString"),
\* or one it refuses; a value of the wrong
\* Go type is "nonString"; an option that is not set is "absent".
DefaultDuration == "20m"

VARIABLES
    options,    \* the options of the configuration
    built,      \* "none" before construction, then "ok" or "error"
    mw,         \* the fields of the constructed middleware
    answers     \* set of <<driver name, "cdn" or "backend">> URLFor answered

vars == <<options, built, mw, answers>>

Init ==
    /\ options \in OptionSets
    /\ built = "none"
    /\ mw = [baseURL |-> "none", authType |-> "none", duration |-> "none"]
    /\ answers = {}

\* Lines 50-61: authtype must be present, a string, and one of a, b, c.
ParseAuthType(o) ==
    IF o.authtype \in {"absent", "nonString"} \/ o.authtype \notin {"a", "b", "c"}
    THEN "error" ELSE o.authtype

\* Lines 34-48: a base URL without "://" gets "https://" in front.
ParseBaseURL(o) ==
    IF o.baseurl \in {"absent", "nonString", "unparsable"} THEN "error"
    ELSE "withScheme"

\* Lines 75-89: default 20 minutes; a value of another type is ignored.
ParseDuration(o) ==
    CASE o.duration = "absent"            -> DefaultDuration
      [] o.duration = "invalidString"   -> "error"
      [] o.duration \in {"duration", "validString", "nonPositiveString"} -> o.duration
      [] o.duration = "otherType"       -> DefaultDuration

\* newBceCDNStorageMiddleware: the first option that does not parse fails
\* the construction.
Construct ==
    /\ built = "none"
    /\ LET base == ParseBaseURL(options)
           auth == ParseAuthType(options)
           dur  == ParseDuration(options)
       IN IF \/ base = "error" \/ auth = "error"
             \/ options.privatekey \in {"absent", "nonString"}
             \/ dur = "error"
          THEN built' = "error" /\ UNCHANGED mw
          ELSE /\ built' = "ok"
               /\ mw' = [baseURL |-> base, authType |-> auth, duration |-> dur]
    /\ UNCHANGED <<options, answers>>

\* Line 101: the condition meant to recognise an unsupported backend.
Unsupported(name) == ~(name # "s3" \/ name # "cos")

\* URLFor on a constructed middleware wrapping the named driver.  Signing
\* cannot fail for an authtype of a, b or c.
URLFor(name) ==
    /\ built = "ok"
    /\ answers' = answers \cup {<<name, IF Unsupported(name) THEN "backend" ELSE "cdn">>}
    /\ UNCHANGED <<options, built, mw>>

\* The registry has stopped after a failed construction.
Stopped ==
    /\ built = "error"
    /\ UNCHANGED vars

Next == Construct \/ (\E name \in Drivers : URLFor(name)) \/ Stopped

Spec == Init /\ [][Next]_vars

(***************************************************************************)
(* Properties.                                                             *)
(***************************************************************************)
\* The warning in URLFor says the middleware does not support a backend
\* other than s3 or cos: for such a backend the URL comes from the
\* backend itself, never from the CDN.
UnsupportedDriverFallsBack ==
    \A a \in answers : a[1] \notin {"s3", "cos"} => a[2] = "backend"
=============================================================================
