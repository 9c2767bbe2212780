------------------------------- MODULE MCServer -------------------------------
EXTENDS Server

SomeShapes ==
    {[path |-> "/webhook/mutating", body |-> "review"],
     [path |-> "/webhook/mutating", body |-> "undecodable"],
     [path |-> "/healthz", body |-> "notPosted"]}
=============================================================================
