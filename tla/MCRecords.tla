------------------------------ MODULE MCRecords ------------------------------
(* Values for the constants of Records that a cfg cannot write. *)
EXTENDS Records, TLC

MCSamples == <<{"sku1"}, {"sku2"}>>

Posted(table, keys, about) == [table |-> table, rows |-> keys, about |-> about]

\* Registrations that share a name, a sample and a new product,
\* a review of a product that is there if it was posted or the workers' seedings
\* used its id up, one message and two.
MCInserts ==
    {Posted("users", <<{"email a", "name x"}>>, 0),
     Posted("users", <<{"email b", "name x"}>>, 0),
     Posted("products", <<{"sku2"}>>, 0),
     Posted("products", <<{"sku3"}>>, 0),
     Posted("reviews", <<{"review of 3"}>>, 3),
     Posted("notifications", <<{}>>, 0),
     Posted("notifications", <<{}, {}>>, 0)}

RecordsSymmetry == Permutations(Requests) \cup Permutations(Workers) \cup Permutations(Edits)
=============================================================================
