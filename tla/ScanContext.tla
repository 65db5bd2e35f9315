------------------------------ MODULE ScanContext ------------------------------
(* What the modules of one scan share (internal/core/core.go): the width of their *)
(* worker pools, the context an interrupt cancels, the subdomains and endpoints   *)
(* one module finds for the next, and the report they add findings to.            *)
(*                                                                               *)
(* Every access to the shared lists holds SharedMu and every access to the report *)
(* holds its own mutex, so each is one step here. The lists keep first            *)
(* occurrences only; what a later module does with them does not depend on their  *)
(* order, and they are sets here.                                                 *)
EXTENDS Integers, FiniteSets

VARIABLES
  width,       \* cfg.Concurrency, as main has clamped it
  cancelled,   \* cfg.Cancel has been called
  subdomains,  \* cfg.SharedSubdomains
  endpoints,   \* cfg.SharedEndpoints
  findings     \* r.Findings

contextVars == <<width, cancelled, subdomains, endpoints, findings>>

\* A finding: the module that adds it and what it is about.
Finding(module, about) == [module |-> module, about |-> about]

\* ReconReport.Add
Add(found) == findings' = findings \cup found

AddSharedSubdomains(names) == subdomains' = subdomains \cup names
AddSharedEndpoints(routes) == endpoints' = endpoints \cup routes

\* A semaphore of `width` slots: `busy` goroutines hold one each.
SlotFree(busy) == Cardinality(busy) < width

Cancel == cancelled' = TRUE
================================================================================
