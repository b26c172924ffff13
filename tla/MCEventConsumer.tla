-------------------------- MODULE MCEventConsumer --------------------------
EXTENDS EventConsumer

=============================================================================
