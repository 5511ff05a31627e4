------------------------------ MODULE Addresses ------------------------------
(***************************************************************************)
(* The addresses of the chain, and what stands for an absent value: shared *)
(* by the parts of the token that have nothing else in common.             *)
(***************************************************************************)
CONSTANTS
    Addr,       \* the addresses of the chain
    NoAddr,     \* any text that is not a valid address, "" included
    None        \* an absent Option, an absent map entry, an absent item

\* An address field that the code stores without validating it.
AnyAddr == Addr \cup {NoAddr}
=============================================================================
