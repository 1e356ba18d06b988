-------------------------- MODULE ActorsDeathWatch --------------------------
(***************************************************************************)
(* The run loops of Actors and their registries implement DeathWatch.       *)
(***************************************************************************)
EXTENDS Actors

Spawned == {a \in Actor : Born(a)}

\* An actor falls silent when it closes its registry: its destructors have run.
Silent == {b \in Actor : pc[b] \in Signalling}

\* It owes a signal to whoever is registered with it, and to whoever it has set
\* aside since.  The sink of the actor system is no actor's watch.
Owed == {p \in Actor \X Actor : p[1] \in registry[p[2]] \cup toSignal[p[2]]}

Promise == INSTANCE DeathWatch
    WITH spawned <- Spawned, silent <- Silent,
         receiving <- connected, owed <- Owed

\* Registering, deregistering, taking and signalling are spread over the steps
\* of many tasks; together they keep the promise of the death watch
\* (actor_context.rs:93-120, 356-391, mailbox.rs:84-131).
ImplementsDeathWatch == Promise!Spec
=============================================================================
