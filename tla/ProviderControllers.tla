------------------------ MODULE ProviderControllers ------------------------
(***************************************************************************)
(* The controllers of LLMProvider and MemoryProvider.  Neither watches     *)
(* what it reports about, a Secret and the memory store: each looks again  *)
(* when its interval has passed (5 minutes unless the provider says        *)
(* otherwise), and when its status could not be written.  The API of an    *)
(* LLM provider is not contacted, whatever the spec says of health checks. *)
(***************************************************************************)
EXTENDS Integers

CONSTANTS
  MaxFaults,     \* bound on failed reads and writes
  MaxChanges     \* bound on what happens to the Secret and the store

ASSUME ProviderAssumption == MaxFaults \in Nat /\ MaxChanges \in Nat

\* How the LLM provider comes by its key: from a Secret, without one because its
\* type needs none (ollama, custom), or without one though its type needs it.
Credentials == {"secret", "unneeded", "missing"}

VARIABLES
  credentials,   \* spec.type and spec.credentials of the LLMProvider
  builtin,       \* spec.type of the MemoryProvider is the built-in store
  secret,        \* the Secret exists and has the key
  storeUp,       \* the memory store answers
  llm,           \* status.phase of the LLMProvider
  valid,         \* its CredentialsValid condition: "" until it is first set
  memory,        \* status.healthy of the MemoryProvider
  due,           \* the providers whose controller will look again
  faults,        \* failures so far
  changes        \* changes so far

providers == <<llm, valid, memory, due>>
providerVars == <<credentials, builtin, secret, storeUp, providers, faults, changes>>

Fault == faults < MaxFaults /\ faults' = faults + 1
NoFault == faults' = faults
Changed == changes < MaxChanges /\ changes' = changes + 1

ProviderInit ==
  /\ credentials \in Credentials /\ builtin \in BOOLEAN
  /\ secret \in BOOLEAN /\ storeUp \in BOOLEAN
  /\ llm = "" /\ valid = "" /\ memory = FALSE /\ due = {"llm", "memory"}
  /\ faults = 0 /\ changes = 0

validateCredentials(found) ==
  CASE credentials = "secret" -> found
    [] credentials = "unneeded" -> TRUE
    [] credentials = "missing" -> FALSE

\* The condition is set when the credentials are there, and never unset.
Report(found) ==
  IF validateCredentials(found) THEN llm' = "Ready" /\ valid' = "True"
                                ELSE llm' = "Error" /\ valid' = valid

\* Mutant: a provider that has been reported on is left alone.
RequeueNever(p, written) == due' = IF written THEN due \ {p} ELSE due

\* After the interval when the status was written, after a backoff when it was not.
Requeue(p, written) == due' = due \cup {p}

\* A Secret that cannot be read counts as missing.
LLMReconcile ==
  /\ "llm" \in due
  /\ \/ NoFault /\ Report(secret) /\ Requeue("llm", TRUE)
     \/ Fault /\ Report(FALSE) /\ Requeue("llm", TRUE)
     \/ Fault /\ UNCHANGED <<llm, valid>> /\ Requeue("llm", FALSE)
  /\ UNCHANGED <<credentials, builtin, secret, storeUp, memory, changes>>

MemoryReconcile ==
  /\ "memory" \in due
  /\ \/ NoFault /\ memory' = (builtin /\ storeUp) /\ Requeue("memory", TRUE)
     \/ Fault /\ memory' = memory /\ Requeue("memory", FALSE)
  /\ UNCHANGED <<credentials, builtin, secret, storeUp, llm, valid, changes>>

SecretChanges ==
  /\ Changed /\ secret' = ~secret
  /\ UNCHANGED <<credentials, builtin, storeUp, providers, faults>>

StoreChanges ==
  /\ Changed /\ storeUp' = ~storeUp
  /\ UNCHANGED <<credentials, builtin, secret, providers, faults>>

ProviderStep == LLMReconcile \/ MemoryReconcile

-----------------------------------------------------------------------------
(* Properties                                                              *)

\* What the providers report follows the two things their controllers look at,
\* though nothing tells them of a change: an LLMProvider is Ready when the Secret
\* it names holds the key, and a MemoryProvider healthy when the store answers.
\* Ready says nothing of the provider's API, which is never asked.
ProvidersFollow ==
  /\ <>[](credentials = "secret" /\ secret) => <>[](llm = "Ready")
  /\ <>[](credentials = "secret" /\ ~secret) => <>[](llm = "Error")
  /\ <>[](builtin /\ storeUp) => <>[]memory
  /\ <>[]~(builtin /\ storeUp) => <>[]~memory
=============================================================================
