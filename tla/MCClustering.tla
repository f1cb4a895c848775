---------------------------- MODULE MCClustering ----------------------------
EXTENDS Clustering

CONSTANTS d1, d2
=============================================================================
