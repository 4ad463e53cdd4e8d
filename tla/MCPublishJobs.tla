--------------------------- MODULE MCPublishJobs ---------------------------
EXTENDS PublishJobs
=============================================================================
