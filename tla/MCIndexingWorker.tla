--------------------------- MODULE MCIndexingWorker ---------------------------
EXTENDS IndexingWorker
===============================================================================
