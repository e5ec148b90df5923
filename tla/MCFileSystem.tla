------------------------------ MODULE MCFileSystem ------------------------------
EXTENDS FileSystem, TLC

Symmetry == Permutations(Process) \union Permutations(Name)

================================================================================
