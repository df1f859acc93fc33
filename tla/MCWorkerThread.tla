---------------------------- MODULE MCWorkerThread ----------------------------
EXTENDS WorkerThread
===============================================================================
