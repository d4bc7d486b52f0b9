-------------------------- MODULE MCFieldDispatch --------------------------
(* The values the TLC runs of FieldDispatch give its constants. *)
EXTENDS FieldDispatch, TLC

\* Opened and not assigned; assigned by the web form and on its way.
OpenOrOnRoute ==
    {[status |-> "open", user |-> None, operator |-> None]} \cup
    {[status |-> "on_route", user |-> t, operator |-> t] : t \in Techs}

AnyTech == Permutations(Techs) \cup Permutations(Requests)
=============================================================================
