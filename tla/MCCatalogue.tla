---------------------------- MODULE MCCatalogue ----------------------------
EXTENDS Catalogue, ProviderManifests
=============================================================================
