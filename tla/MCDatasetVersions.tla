-------------------------- MODULE MCDatasetVersions --------------------------
EXTENDS DatasetVersions, TLC
CONSTANTS a, b, c, empty

\* Three samples of one project, two of them of one chapter.
OneProject == 1 :> 1 @@ 2 :> 1 @@ 3 :> 1
TwoChapters == 1 :> 1 @@ 2 :> 1 @@ 3 :> 2

\* The contents that are not empty are interchangeable.
Texts == Permutations({a, b, c})
=============================================================================
