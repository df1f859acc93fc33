----------------------------- MODULE MCEventQueue -----------------------------
EXTENDS EventQueue
===============================================================================
