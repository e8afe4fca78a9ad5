--------------------------- MODULE MCSearchCampaign ---------------------------
(***************************************************************************)
(* Campaigns over few roots for SearchCampaign: serial and pooled, with    *)
(* and without training packets, compacting or not.                        *)
(***************************************************************************)
EXTENDS SearchCampaign

MCModes ==
  { [workers |-> 1, training |-> TRUE, decisive |-> TRUE],
    [workers |-> 2, training |-> TRUE, decisive |-> TRUE],
    [workers |-> 2, training |-> FALSE, decisive |-> TRUE],
    [workers |-> 1, training |-> FALSE, decisive |-> TRUE] }

=============================================================================
