------------------------------ MODULE MCCdnURLFor ------------------------------
(***************************************************************************)
(* Every combination of the four options, each present with a valid        *)
(* value, absent, of the wrong type or invalid; three backends, one of     *)
(* them not supported by the middleware.                                   *)
(***************************************************************************)
EXTENDS CdnURLFor

MCOptionSets ==
    [baseurl : {"absent", "nonString", "withScheme", "noScheme", "unparsable"},
     authtype : {"absent", "nonString", "a", "c", "d"},
     privatekey : {"absent", "nonString", "string"},
     duration : {"absent", "duration", "validString", "nonPositiveString", "invalidString", "otherType"}]
=============================================================================
