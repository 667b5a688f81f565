-------------------------- MODULE MCWebhookIngest --------------------------
(***************************************************************************)
(* WebhookIngest for TLC: two requests, two execution environments, two    *)
(* attempts at a PUT, and a clock of one tick each side of midnight in     *)
(* UTC+9 (15:00 UTC; a tick is three hours).                               *)
(***************************************************************************)
EXTENDS WebhookIngest, TLC

CONSTANTS r1, r2, i1, i2

MCName == {"example", "blogs api", "blogs_api", "unknown"}

\* "blogs api" and "blogs_api" share a partition.
MCEscape == [n \in MCName |-> IF n = "blogs api" THEN "blogs_api" ELSE n]

Published == [form |-> "webhook",
              payload |-> [service |-> "example", api |-> "blogs api", type |-> "edit",
                           old |-> {"DRAFT"}, new |-> {"PUBLISH"}]]

\* One of another API, in the same partition.
Updated == [form |-> "webhook",
            payload |-> [service |-> "example", api |-> "blogs_api", type |-> "edit",
                         old |-> {"PUBLISH"}, new |-> {"PUBLISH"}]]

\* A webhook about an API, which has no content and may lack names.
ApiChanged == [form |-> "webhook",
               payload |-> [service |-> "example", api |-> Null, type |-> Null,
                            old |-> {}, new |-> {}]]

NotJson == [form |-> "text"]

MCBody == {Published, Updated, ApiChanged, NotJson}

Sign(encoding, key, body) == [encoding |-> encoding, key |-> key, body |-> body]

MCMessage ==
    { [signature |-> Sign("hex", "current", Published),     body |-> Published],
      [signature |-> Sign("hex", "current", Updated),       body |-> Updated],
      [signature |-> Sign("base64", "next", ApiChanged),    body |-> ApiChanged],
      [signature |-> Sign("hex", "current", NotJson),       body |-> NotJson],
      [signature |-> Sign("hex", "current", ApiChanged),    body |-> Published],
      [signature |-> Null,                                  body |-> Published] }

\* Without two of the ways to be rejected.
MCFewMessages == {m \in MCMessage : m.signature # Null /\ m.body.form = "webhook"}

MCEnvironment ==
    { [bucket |-> TRUE, secret |-> "current"],
      [bucket |-> TRUE, secret |-> "next"],
      [bucket |-> FALSE, secret |-> "current"] }

Symmetry == Permutations({r1, r2}) \cup Permutations({i1, i2})

=============================================================================
